---- MODULE Spec2Model ----
(***************************************************************************)
(* Durable document store of content-planner: the posts write-through      *)
(* cache and its atomic mutators (backend/utils/db-cache.js), the generic  *)
(* reader and writer readJSON / writeJSON (backend/utils/db.js) and the    *)
(* session store (backend/middleware/auth.js).                             *)
(*                                                                         *)
(* Every await of the JavaScript source is a point where another callback  *)
(* of the same process, or another process, may run; an action of this     *)
(* module is the code between two such points.  Writes to temp files are   *)
(* private to their call (unique names) and are folded into one step.      *)
(***************************************************************************)
EXTENDS Integers, Sequences, FiniteSets, TLC

\* ------------------------------------------------------------------ bounds
MaxCalls == 2
MaxFaults == 1
MaxCrashes == 1
MaxTokens == 2
MaxPersists == 3
MaxTime == 2
MaxWrites == 3

Calls == 1..MaxCalls
NoCall == 0
Procs == {"A", "B"}

VARIABLES
    file,       \* bytes of the document file (posts.json)
    sha,        \* content of the sibling .sha256 file
    bak,        \* content of the sibling .backup file
    lock,       \* call holding the proper-lockfile lock on the path, or NoCall
    cache,      \* postsCache of each process
    version,    \* cacheVersion of each process
    call,       \* the state of each call (position and locals)
    live,       \* the server processes that exist
    faults,     \* I/O errors injected so far
    crashes,    \* process crashes so far
    completed,  \* history: collections whose data and digest both reached disk
    torn,       \* history: pre-write content of a write cut between its renames
    failedW,    \* history: per process, a write failed and no read started since
    sessions,   \* auth.js: the in-memory session map, as a set of entries
    mirror,     \* content of sessions.json (the persisted array, as a set)
    sessionLock,\* auth.js: sessionLock {locked, queue}
    persist,    \* the persistSessions calls: position and snapshot
    load,       \* the loadSessions call made at startup
    now,        \* Date.now()
    tokens,     \* number of tokens generated so far
    sfaults,    \* failed writes of the mirror so far
    revoked,    \* history: tokens of the users revokeSessionsForUser was called for
    logfile,    \* logs.ndjson: whether it exists, and its lines
    loglock,    \* call holding the proper-lockfile lock on logs.ndjson, or NoCall
    writeInProgress, \* db-cache.js: per process, the call whose promise it holds
    account,    \* users.json: failedLoginAttempts and lockUntil of one user
    ulock,      \* login holding the proper-lockfile lock on users.json, or NoCall
    login,      \* the POST /api/login requests: position, password, response
    wall,       \* Date.now() of the login handler, in units of LockoutUnit
    streak      \* history: failed logins since the last success or lockout end

storeVars == <<file, sha, bak, lock, cache, version, call, live, faults, crashes,
               completed, torn, failedW>>
sessVars == <<sessions, mirror, sessionLock, persist, load, now, tokens, sfaults,
              revoked>>
logVars == <<logfile, loglock>>
acctVars == <<account, ulock, login, wall, streak>>
vars == <<storeVars, sessVars, logVars, writeInProgress, acctVars>>

\* ------------------------------------------------------------ bytes, JSON
NoFile == [k |-> "absent", v |-> <<>>]
EmptyBytes == [k |-> "empty", v |-> <<>>]
Garbage == [k |-> "garbage", v |-> <<>>]

\* JSON.stringify(value, null, 2): the text of a value.
Stringify(v) == [k |-> "json", v |-> v]

\* crypto.createHash('sha256').update(bytes).digest('hex'): injective on the
\* model's byte strings (collision resistance).
Sha256(b) == [k |-> "sha", of |-> b]

\* JSON.parse(data || '[]') of db-cache.js.
ParsePosts(b) == IF b.k = "json" THEN b.v ELSE <<>>

\* ------------------------------------------------------------------ posts
NoTime == -1
NoPost == [id |-> 0, date |-> 0, time |-> NoTime, isAllDay |-> FALSE]
InitPosts == << [id |-> 1, date |-> 2, time |-> 540, isAllDay |-> FALSE] >>

\* (a.time || '00:00').split(':').map(Number) -> minutes of the day
Minutes(t) == IF t = NoTime THEN 0 ELSE t

\* the comparator of every sort in db-cache.js
Cmp(a, b) == IF a.date # b.date THEN a.date - b.date
             ELSE Minutes(a.time) - Minutes(b.time)

RECURSIVE InsertSorted(_, _)
InsertSorted(s, p) ==
    IF s = <<>> THEN <<p>>
    ELSE IF Cmp(Head(s), p) > 0 THEN <<p>> \o s
    ELSE <<Head(s)>> \o InsertSorted(Tail(s), p)

\* Array.prototype.sort with Cmp: a stable sort.
RECURSIVE SortPosts(_)
SortPosts(s) ==
    IF s = <<>> THEN <<>>
    ELSE InsertSorted(SortPosts(SubSeq(s, 1, Len(s) - 1)), s[Len(s)])

Ids(s) == {s[i].id : i \in 1..Len(s)}

\* posts.findIndex((p) => p.id === postId); 0 stands for -1
FindIndex(s, id) ==
    IF id \in Ids(s) THEN CHOOSE i \in 1..Len(s) :
                               /\ s[i].id = id
                               /\ \A j \in 1..(i - 1) : s[j].id # id
    ELSE 0

\* posts.splice(idx, 1)
Splice(s, i) == SubSeq(s, 1, i - 1) \o SubSeq(s, i + 1, Len(s))

\* the route's updateFn: { ...oldPost, ...req.body, id } with body {date}
UpdateFn(old, d) == [old EXCEPT !.date = d]

\* --------------------------------------------------------------- optionals
None == [set |-> FALSE, v |-> <<>>]
Opt(v) == [set |-> TRUE, v |-> v]

\* ------------------------------------------------------------------- calls
Idle == [op |-> "none", proc |-> "A", pc |-> "idle", id |-> 0, post |-> NoPost,
         posts |-> <<>>, payload |-> NoFile, res |-> "none",
         seenFile |-> NoFile, seenSha |-> NoFile, sawTorn |-> None,
         path |-> "none", tries |-> 0, waits |-> 0,
         wrote |-> FALSE, swapped |-> FALSE, emitted |-> FALSE, status |-> 0,
         item |-> [name |-> "none", color |-> 0], updatedPost |-> NoPost,
         req |-> [by |-> "none", target |-> "none", role |-> "none"]]

\* a call that has returned: its locals are gone, its result is kept (and
\* the history of what it did: wrote, swapped)
Returned(r, res) == [Idle EXCEPT !.op = r.op, !.proc = r.proc, !.pc = "done",
                                 !.id = r.id, !.res = res,
                                 !.wrote = r.wrote, !.swapped = r.swapped,
                                 !.updatedPost = r.updatedPost]

CreateDates == {1, 3}
TargetIds == {1, 11}
UpdateDates == {0}

\* genId(): an id no other post has
NewId(c) == 10 + c

MutOps == {"create", "update", "delete"}
InFlight(c) == call[c].pc \notin {"idle", "done", "crashed"}
WriteInFlight == \E c \in Calls : call[c].op \in MutOps /\ InFlight(c)

\* calls are issued in the order of their numbers
CanStart(c) == /\ call[c].pc = "idle"
               /\ c > 1 => call[c - 1].pc # "idle"

\* ---------------------------------------------------- db-cache.js: mutators
\* atomicCreatePost(newPost), up to its first await: lockfile.lock(POSTS_PATH)
StartCreate(c, p, d) ==
    /\ CanStart(c) /\ p \in live
    /\ call' = [call EXCEPT ![c] = [Idle EXCEPT !.op = "create", !.proc = p,
                   !.pc = "lock", !.id = NewId(c),
                   !.post = [id |-> NewId(c), date |-> d, time |-> 600, isAllDay |-> FALSE]]]
    /\ UNCHANGED <<sessVars, logVars, writeInProgress, file, sha, bak, lock, cache, version, live, faults, crashes,
                   completed, torn, failedW, acctVars>>

\* POST /api/posts with any time of day and either value of the form's
\* "All day" box (which sets the time to 00:00 but can be sent with any time)
CreateTimes == {0, 540, 600}
StartCreatePost(c, p, d, t, a) ==
    /\ CanStart(c) /\ p \in live
    /\ call' = [call EXCEPT ![c] = [Idle EXCEPT !.op = "create", !.proc = p,
                   !.pc = "lock", !.id = NewId(c),
                   !.post = [id |-> NewId(c), date |-> d, time |-> t, isAllDay |-> a]]]
    /\ UNCHANGED <<sessVars, logVars, writeInProgress, file, sha, bak, lock, cache, version, live, faults, crashes,
                   completed, torn, failedW, acctVars>>

\* atomicUpdatePost(postId, updateFn), up to its first await
StartUpdate(c, p, id, d) ==
    /\ CanStart(c) /\ p \in live
    /\ call' = [call EXCEPT ![c] = [Idle EXCEPT !.op = "update", !.proc = p,
                   !.pc = "lock", !.id = id,
                   !.post = [NoPost EXCEPT !.date = d]]]
    /\ UNCHANGED <<sessVars, logVars, writeInProgress, file, sha, bak, lock, cache, version, live, faults, crashes,
                   completed, torn, failedW, acctVars>>

\* atomicDeletePost(postId), up to its first await
StartDelete(c, p, id) ==
    /\ CanStart(c) /\ p \in live
    /\ call' = [call EXCEPT ![c] = [Idle EXCEPT !.op = "delete", !.proc = p,
                   !.pc = "lock", !.id = id]]
    /\ UNCHANGED <<sessVars, logVars, writeInProgress, file, sha, bak, lock, cache, version, live, faults, crashes,
                   completed, torn, failedW, acctVars>>

\* a lock() that never waits for the holder
LockFreeMut == TRUE

\* lockfile.lock: the lock directory is absent, or is stale because its
\* holder died, and the caller takes it
LockFree == IF lock = NoCall THEN TRUE ELSE call[lock].pc = "crashed"

\* invalidateCache()
InvalidateCache(p) ==
    /\ cache' = [cache EXCEPT ![p] = None]
    /\ version' = [version EXCEPT ![p] = @ + 1]

\* release = await lockfile.lock(POSTS_PATH, LOCK_OPTIONS) resolves
MutLock(c) ==
    /\ call[c].op \in MutOps /\ call[c].pc = "lock"
    /\ LockFree
    /\ lock' = c
    /\ call' = [call EXCEPT ![c].pc = "read"]
    /\ UNCHANGED <<sessVars, logVars, writeInProgress, file, sha, bak, cache, version, live, faults, crashes,
                   completed, torn, failedW, acctVars>>

\* lockfile.lock rejects (ELOCKED) after its retries: another holder kept the
\* lock.  catch: invalidateCache(); return {success: false}; release is unset.
MutLockFail(c) ==
    /\ call[c].op \in MutOps /\ call[c].pc = "lock"
    /\ ~LockFree
    /\ InvalidateCache(call[c].proc)
    /\ call' = [call EXCEPT ![c] = Returned(call[c], "error")]
    /\ failedW' = [failedW EXCEPT ![call[c].proc] = TRUE]
    /\ UNCHANGED <<sessVars, logVars, writeInProgress, file, sha, bak, lock, live, faults, crashes, completed, torn, acctVars>>

\* posts.push(newPost); posts.sort(cmp)
CreateApply(posts, p) == SortPosts(Append(posts, p))

\* posts[idx] = updateFn(posts[idx]); posts.sort(cmp)
UpdateApply(posts, idx, d) ==
    SortPosts([posts EXCEPT ![idx] = UpdateFn(posts[idx], d)])

\* posts.splice(idx, 1)
DeleteApply(posts, idx) == Splice(posts, idx)

\* a delete that does not check the index
NotFoundMut(op, idx) == op \in {"update"} /\ idx = 0

\* if (idx === -1) return { success: false, error: 'Post not found' }
NotFound(op, idx) == op \in {"update", "delete"} /\ idx = 0

\* updatedPost: posts[idx], read after posts.sort has reordered posts in place
UpdatedPost(sorted, idx) == sorted[idx]

\* a mutator that starts from the cache of its process when there is one
MutSourceMut(p) == IF cache[p].set THEN cache[p].v ELSE ParsePosts(file)

\* data = await fs.readFile(POSTS_PATH); posts = JSON.parse(data || '[]')
MutSource(p) == ParsePosts(file)

\* fs.readFile + JSON.parse, then the change in memory, up to the await of
\* the temp write (or the early return of a missing id).  A missing file or
\* a text that does not parse throws: catch: invalidateCache(); success false
MutRead(c) ==
    /\ call[c].op \in MutOps /\ call[c].pc = "read"
    /\ LET cur == MutSource(call[c].proc)
           idx == FindIndex(cur, call[c].id)
           new == CASE call[c].op = "create" -> CreateApply(cur, call[c].post)
                    [] call[c].op = "update" /\ idx > 0 ->
                           UpdateApply(cur, idx, call[c].post.date)
                    [] call[c].op = "delete" /\ idx > 0 -> DeleteApply(cur, idx)
                    [] OTHER -> cur
       IN  IF file.k \in {"absent", "garbage"}
           THEN /\ InvalidateCache(call[c].proc)
                /\ call' = [call EXCEPT ![c].seenFile = file, ![c].seenSha = sha,
                                        ![c].payload = file,
                                        ![c].res = "error", ![c].pc = "release"]
                /\ failedW' = [failedW EXCEPT ![call[c].proc] = TRUE]
           ELSE /\ call' = [call EXCEPT
                     ![c].seenFile = file, ![c].seenSha = sha,
                     ![c].posts = new,
                     ![c].updatedPost = IF call[c].op = "update" /\ idx > 0
                                        THEN UpdatedPost(new, idx) ELSE NoPost,
                     ![c].payload = Stringify(new),
                     ![c].res = IF NotFound(call[c].op, idx) THEN "notfound" ELSE @,
                     ![c].pc = IF NotFound(call[c].op, idx) THEN "release" ELSE "wtmp"]
                /\ UNCHANGED <<cache, version, failedW>>
    /\ UNCHANGED <<sessVars, logVars, writeInProgress, file, sha, bak, lock, live, faults, crashes,
                   completed, torn, acctVars>>

\* await fs.writeFile(tmpPath, payload); await fs.writeFile(tmpPath + '.sha256')
MutWriteTmp(c) ==
    /\ call[c].op \in MutOps /\ call[c].pc = "wtmp"
    /\ call' = [call EXCEPT ![c].pc = "rename1"]
    /\ UNCHANGED <<sessVars, logVars, writeInProgress, file, sha, bak, lock, cache, version, live, faults, crashes,
                   completed, torn, failedW, acctVars>>

\* await fs.rename(tmpPath, POSTS_PATH)
MutRenameData(c) ==
    /\ call[c].op \in MutOps /\ call[c].pc = "rename1"
    /\ file' = call[c].payload
    /\ torn' = None
    /\ call' = [call EXCEPT ![c].pc = "rename2"]
    /\ UNCHANGED <<sessVars, logVars, writeInProgress, sha, bak, lock, cache, version, live, faults, crashes,
                   completed, failedW, acctVars>>

\* await fs.rename(tmpPath + '.sha256', POSTS_PATH + '.sha256')
MutRenameSha(c) ==
    /\ call[c].op \in MutOps /\ call[c].pc = "rename2"
    /\ sha' = Sha256(call[c].payload)
    /\ torn' = None
    /\ completed' = IF file = call[c].payload
                    THEN completed \cup {call[c].posts} ELSE completed
    /\ call' = [call EXCEPT ![c].pc = "swap", ![c].wrote = TRUE]
    /\ UNCHANGED <<sessVars, logVars, writeInProgress, file, bak, lock, cache, version, live, faults, crashes, failedW, acctVars>>

\* postsCache = sorted; cacheVersion++; return {success: true, ...}
MutCacheSwap(c) ==
    /\ call[c].op \in MutOps /\ call[c].pc = "swap"
    /\ cache' = [cache EXCEPT ![call[c].proc] = Opt(call[c].posts)]
    /\ version' = [version EXCEPT ![call[c].proc] = @ + 1]
    /\ call' = [call EXCEPT ![c].pc = "release", ![c].res = "ok", ![c].swapped = TRUE]
    /\ UNCHANGED <<sessVars, logVars, writeInProgress, file, sha, bak, lock, live, faults, crashes, completed, torn,
                   failedW, acctVars>>

\* an awaited fs call of the write sequence rejects (disk full, I/O error):
\* catch: invalidateCache(); return {success: false, error}
MutFault(c) ==
    /\ call[c].op \in MutOps /\ call[c].pc \in {"wtmp", "rename1", "rename2"}
    /\ faults < MaxFaults
    /\ faults' = faults + 1
    /\ InvalidateCache(call[c].proc)
    /\ call' = [call EXCEPT ![c].pc = "release", ![c].res = "error"]
    /\ failedW' = [failedW EXCEPT ![call[c].proc] = TRUE]
    /\ UNCHANGED <<sessVars, logVars, writeInProgress, file, sha, bak, lock, live, crashes, completed, torn, acctVars>>

\* a finally that the early return of a missing id skips
MutReleaseMut(c) ==
    /\ call[c].op \in MutOps /\ call[c].pc = "release"
    /\ lock' = IF lock = c /\ call[c].res # "notfound" THEN NoCall ELSE lock
    /\ call' = [call EXCEPT ![c] = Returned(call[c], call[c].res)]
    /\ UNCHANGED <<sessVars, logVars, writeInProgress, file, sha, bak, cache, version, live, faults, crashes,
                   completed, torn, failedW, acctVars>>

\* finally: if (release) await release(); the call's result is delivered
MutRelease(c) ==
    /\ call[c].op \in MutOps /\ call[c].pc = "release"
    /\ lock' = IF lock = c THEN NoCall ELSE lock
    /\ call' = [call EXCEPT ![c] = Returned(call[c], call[c].res)]
    /\ UNCHANGED <<sessVars, logVars, writeInProgress, file, sha, bak, cache, version, live, faults, crashes,
                   completed, torn, failedW, acctVars>>

\* finally: await release() rejects (the lock was taken over as stale, or its
\* marker could not be removed): nothing catches it, the call rejects
MutReleaseFail(c) ==
    /\ call[c].op \in MutOps /\ call[c].pc = "release"
    /\ lock = c
    /\ faults < MaxFaults
    /\ faults' = faults + 1
    /\ lock' = NoCall
    /\ call' = [call EXCEPT ![c] = Returned(call[c], "throw")]
    /\ UNCHANGED <<sessVars, logVars, writeInProgress, file, sha, bak, cache, version, live,
                   crashes, completed, torn, failedW, acctVars>>

\* ------------------------------------------------- routes/posts.js: handlers
\* a handler that notifies whenever the mutator returned a result
SucceededMut(res) == res # "throw"

\* if (result.success)
Succeeded(res) == res = "ok"

\* the response of router.post('/'), router.put('/:id'), router.delete('/:id')
StatusOf(op, res) ==
    CASE res = "throw" -> 500
      [] Succeeded(res) -> IF op = "create" THEN 201 ELSE 200
      [] OTHER -> IF op = "create" THEN 500 ELSE 404

\* the handler after `result = await atomic...Post(...)`: on success
\* io.emit('data_updated', ...) and the 2xx response, otherwise 404 / 500;
\* a rejected await lands in the handler's catch: 500
RouteAnswer(c) ==
    /\ call[c].op \in MutOps /\ call[c].pc = "done" /\ call[c].status = 0
    /\ call' = [call EXCEPT
          ![c].emitted = call[c].res # "throw" /\ Succeeded(call[c].res),
          ![c].status = StatusOf(call[c].op, call[c].res)]
    /\ UNCHANGED <<sessVars, logVars, writeInProgress, file, sha, bak, lock, cache, version, live,
                   faults, crashes, completed, torn, failedW, acctVars>>

\* --------------------------------------------- db-cache.js: readPostsOptimized
\* if (postsCache !== null) return postsCache.slice()
ReadHit(c, p) ==
    /\ CanStart(c) /\ p \in live
    /\ cache[p].set
    /\ call' = [call EXCEPT ![c] = [Idle EXCEPT !.op = "read", !.proc = p,
                   !.pc = "done", !.res = "ok"]]
    /\ failedW' = [failedW EXCEPT ![p] = FALSE]
    /\ UNCHANGED <<sessVars, logVars, writeInProgress, file, sha, bak, lock, cache, version, live, faults, crashes,
                   completed, torn, acctVars>>

\* postsCache is null: the call awaits fs.readFile(POSTS_PATH)
ReadMiss(c, p) ==
    /\ CanStart(c) /\ p \in live
    /\ ~cache[p].set
    /\ call' = [call EXCEPT ![c] = [Idle EXCEPT !.op = "read", !.proc = p,
                   !.pc = "rfile"]]
    /\ failedW' = [failedW EXCEPT ![p] = FALSE]
    /\ UNCHANGED <<sessVars, logVars, writeInProgress, file, sha, bak, lock, cache, version, live, faults, crashes,
                   completed, torn, acctVars>>

\* the file is read (the promise of fs.readFile is not resolved yet)
ReadFile(c) ==
    /\ call[c].op = "read" /\ call[c].pc = "rfile"
    /\ call' = [call EXCEPT ![c].pc = "hydrate", ![c].payload = file,
                   ![c].sawTorn = torn]
    /\ UNCHANGED <<sessVars, logVars, writeInProgress, file, sha, bak, lock, cache, version, live, faults, crashes,
                   completed, torn, failedW, acctVars>>

\* posts = JSON.parse(data || '[]'); postsCache = posts; cacheVersion++;
\* return posts.slice().  catch: ENOENT: postsCache = []; return [] (the
\* version is not touched); a text that does not parse: throw err
Hydrate(c) ==
    /\ call[c].op = "read" /\ call[c].pc = "hydrate"
    /\ LET posts == ParsePosts(call[c].payload)
           p == call[c].proc
       IN  CASE call[c].payload.k = "absent" ->
                  /\ cache' = [cache EXCEPT ![p] = Opt(<<>>)]
                  /\ version' = version
                  /\ call' = [call EXCEPT ![c] = Returned(call[c], "ok")]
             [] call[c].payload.k = "garbage" ->
                  /\ cache' = cache
                  /\ version' = version
                  /\ call' = [call EXCEPT ![c] = Returned(call[c], "throw")]
             [] OTHER ->
                  /\ cache' = [cache EXCEPT ![p] = Opt(posts)]
                  /\ version' = [version EXCEPT ![p] = @ + 1]
                  /\ call' = [call EXCEPT ![c] = Returned(call[c], "ok")]
    /\ UNCHANGED <<sessVars, logVars, writeInProgress, file, sha, bak, lock, live, faults, crashes, completed, torn,
                   failedW, acctVars>>

\* ------------------------------------------------------------ process crash
\* The process dies: its calls stop where they are, its memory is lost, its
\* lock directory stays behind and goes stale; the process is started again.
Crash(p) ==
    /\ p \in live
    /\ crashes < MaxCrashes
    /\ \E c \in Calls : call[c].proc = p /\ InFlight(c)
    /\ crashes' = crashes + 1
    /\ call' = [c \in Calls |->
                  IF call[c].proc = p /\ InFlight(c)
                  THEN [call[c] EXCEPT !.pc = "crashed"] ELSE call[c]]
    /\ cache' = [cache EXCEPT ![p] = None]
    /\ version' = [version EXCEPT ![p] = 0]
    /\ failedW' = [failedW EXCEPT ![p] = FALSE]
    /\ torn' = IF \E c \in Calls : /\ call[c].proc = p /\ call[c].op \in MutOps
                                   /\ call[c].pc = "rename2"
               THEN Opt(ParsePosts(call[CHOOSE c \in Calls :
                        /\ call[c].proc = p /\ call[c].op \in MutOps
                        /\ call[c].pc = "rename2"].seenFile))
               ELSE torn
    /\ UNCHANGED <<sessVars, logVars, writeInProgress, file, sha, bak, lock, live, faults, completed, acctVars>>

\* ------------------------------------------------- auth.js: session store
Users == {"alice", "bob"}
PersistIds == 1..MaxPersists

\* DEFAULT_SESSION_TTL_MS, in units of twelve hours
SessionTtl == 2

\* a token of an earlier run of the server, still in sessions.json
OldToken == 100
OldSession == [token |-> OldToken, username |-> "alice", expires |-> SessionTtl]

NoPersist == [pc |-> "idle", by |-> "none", toks |-> {}, snap |-> {}]
NoSession == [token |-> 0, username |-> "none", expires |-> 0]

\* sessions.get(token)
SessionOf(t) == IF \E e \in sessions : e.token = t
                THEN CHOOSE e \in sessions : e.token = t ELSE NoSession

\* requireAuth: session && session.expires > Date.now()
Accepted(t) == SessionOf(t) # NoSession /\ SessionOf(t).expires > now

\* sessions.set(token, entry) for every entry of es
SetAll(map, es) ==
    {e \in map : \A n \in es : n.token # e.token} \cup es

\* the entries revokeSessionsForUser deletes
OfUser(map, u) == {e \in map : e.username = u}

\* loadSessions keeps: s.expires && s.expires > now
Unexpired(arr, t) == {e \in arr : e.expires > t}

\* the cleanup timer deletes: s.expires <= now
Expired(map, t) == {e \in map : e.expires <= t}

\* the event log, untouched
LogQuiet == logfile = [exists |-> TRUE, lines |-> <<>>] /\ loglock = NoCall

\* let writeInProgress = null
WriteQueueIdle == writeInProgress = [p \in Procs |-> NoCall]

\* POST /api/login: the request slots; a slot is free again once answered
Logins == 1..2
NoAccount == [failedLoginAttempts |-> 0, lockUntil |-> 0]
NoLogin == [pc |-> "idle", known |-> FALSE, pw |-> "none", status |-> 0,
            next |-> NoAccount]

\* a user of users.json never locked out, nobody logging in
AcctQuiet ==
    /\ account = NoAccount
    /\ ulock = NoCall
    /\ login = [l \in Logins |-> NoLogin]
    /\ wall = 1
    /\ streak = 0

SessInit ==
    /\ sessions = {}
    /\ mirror \in {{}, {OldSession}}
    /\ sessionLock = [locked |-> FALSE, queue |-> <<>>]
    /\ persist = [i \in PersistIds |-> NoPersist]
    /\ load = [pc |-> "reading", arr |-> {}]
    /\ now = 0
    /\ tokens = 0
    /\ sfaults = 0
    /\ revoked = {}

SessQuiet ==
    /\ sessions = {}
    /\ mirror = {}
    /\ sessionLock = [locked |-> FALSE, queue |-> <<>>]
    /\ persist = [i \in PersistIds |-> NoPersist]
    /\ load = [pc |-> "done", arr |-> {}]
    /\ now = 0
    /\ tokens = 0
    /\ sfaults = 0
    /\ revoked = {}

\* process.exit(0) of the SIGTERM / SIGINT handler has not run
Running == \A i \in PersistIds : ~(persist[i].by = "shutdown" /\ persist[i].pc = "done")

FreePersist(i) == /\ persist[i].pc = "idle"
                  /\ i > 1 => persist[i - 1].pc # "idle"

\* an acquireSessionLock that puts a new waiter at the head of the queue
CallPersistMut(i, who, ts) ==
    IF sessionLock.locked
    THEN /\ sessionLock' = [sessionLock EXCEPT !.queue = <<i>> \o @]
         /\ persist' = [persist EXCEPT ![i] = [NoPersist EXCEPT !.pc = "queued", !.by = who,
                                                                !.toks = ts]]
    ELSE /\ sessionLock' = [sessionLock EXCEPT !.locked = TRUE]
         /\ persist' = [persist EXCEPT ![i] = [NoPersist EXCEPT !.pc = "granted", !.by = who,
                                                                !.toks = ts]]

\* persistSessions() up to its await: acquireSessionLock() runs its executor
\* at once: takes the free lock, or queues its resolve. by remembers the
\* caller that awaits it, toks the tokens a revokeSessionsForUser is to end
CallPersist(i, who, ts) ==
    IF sessionLock.locked
    THEN /\ sessionLock' = [sessionLock EXCEPT !.queue = Append(@, i)]
         /\ persist' = [persist EXCEPT ![i] = [NoPersist EXCEPT !.pc = "queued", !.by = who,
                                                                !.toks = ts]]
    ELSE /\ sessionLock' = [sessionLock EXCEPT !.locked = TRUE]
         /\ persist' = [persist EXCEPT ![i] = [NoPersist EXCEPT !.pc = "granted", !.by = who,
                                                                !.toks = ts]]

\* a createSession that forgets the ttl
CreateSessionMut(u, i) ==
    /\ Running
    /\ tokens < MaxTokens
    /\ FreePersist(i)
    /\ tokens' = tokens + 1
    /\ sessions' = SetAll(sessions, {[token |-> tokens + 1, username |-> u,
                                      expires |-> now]})
    /\ CallPersist(i, "create", {})
    /\ UNCHANGED <<storeVars, logVars, writeInProgress, mirror, load, now, sfaults, revoked, acctVars>>

\* createSession(user): a fresh random token, sessions.set, persist not awaited
CreateSession(u, i) ==
    /\ Running
    /\ tokens < MaxTokens
    /\ FreePersist(i)
    /\ tokens' = tokens + 1
    /\ sessions' = SetAll(sessions, {[token |-> tokens + 1, username |-> u,
                                      expires |-> now + SessionTtl]})
    /\ CallPersist(i, "create", {})
    /\ UNCHANGED <<storeVars, logVars, writeInProgress, mirror, load, now, sfaults, revoked, acctVars>>

\* revokeSessionsForUser(username): delete the user's entries, await persist
RevokeSessionsForUser(u, i) ==
    /\ Running
    /\ FreePersist(i)
    /\ sessions' = sessions \ OfUser(sessions, u)
    /\ revoked' = revoked \cup {e.token : e \in OfUser(sessions \cup mirror \cup load.arr, u)}
    /\ CallPersist(i, "revoke", {e.token : e \in OfUser(sessions \cup mirror, u)})
    /\ UNCHANGED <<storeVars, logVars, writeInProgress, mirror, load, now, tokens, sfaults, acctVars>>

\* revokeSession(token): if (existed) await persistSessions()
RevokeSession(t, i) ==
    /\ Running
    /\ FreePersist(i)
    /\ SessionOf(t) # NoSession
    /\ sessions' = sessions \ {SessionOf(t)}
    /\ CallPersist(i, "revokeOne", {})
    /\ UNCHANGED <<storeVars, logVars, writeInProgress, mirror, load, now, tokens, sfaults, revoked, acctVars>>

\* the hourly timer: delete the expired entries; persist if any was deleted
Sweep(i) ==
    /\ Running
    /\ FreePersist(i)
    /\ Expired(sessions, now) # {}
    /\ sessions' = sessions \ Expired(sessions, now)
    /\ CallPersist(i, "sweep", {})
    /\ UNCHANGED <<storeVars, logVars, writeInProgress, mirror, load, now, tokens, sfaults, revoked, acctVars>>

\* process.on('SIGTERM' | 'SIGINT'): await persistSessions(); once it has
\* resolved, process.exit(0)
Shutdown(i) ==
    /\ Running
    /\ FreePersist(i)
    /\ CallPersist(i, "shutdown", {})
    /\ UNCHANGED <<storeVars, logVars, writeInProgress, sessions, mirror, load, now, tokens, sfaults,
                   revoked, acctVars>>

\* persistSessions after the await: the snapshot of the map is taken and
\* handed to writeJSON
PersistSnapshot(i) ==
    /\ Running
    /\ persist[i].pc = "granted"
    /\ persist' = [persist EXCEPT ![i].pc = "writing", ![i].snap = sessions]
    /\ UNCHANGED <<storeVars, logVars, writeInProgress, sessions, mirror, sessionLock, load, now, tokens,
                   sfaults, revoked, acctVars>>

\* a release that unlocks even when it hands the lock to a waiter
ReleaseSessionLockMut(i) ==
    IF sessionLock.queue # <<>>
    THEN /\ sessionLock' = [locked |-> FALSE, queue |-> Tail(sessionLock.queue)]
         /\ persist' = [persist EXCEPT ![i].pc = "done", ![i].snap = {}, ![i].toks = {},
                                       ![Head(sessionLock.queue)].pc = "granted"]
    ELSE /\ sessionLock' = [sessionLock EXCEPT !.locked = FALSE]
         /\ persist' = [persist EXCEPT ![i].pc = "done", ![i].snap = {}, ![i].toks = {}]

\* releaseSessionLock(): hand the lock to the first waiter, or unlock
ReleaseSessionLock(i) ==
    IF sessionLock.queue # <<>>
    THEN /\ sessionLock' = [sessionLock EXCEPT !.queue = Tail(@)]
         /\ persist' = [persist EXCEPT ![i].pc = "done", ![i].snap = {}, ![i].toks = {},
                                       ![Head(sessionLock.queue)].pc = "granted"]
    ELSE /\ sessionLock' = [sessionLock EXCEPT !.locked = FALSE]
         /\ persist' = [persist EXCEPT ![i].pc = "done", ![i].snap = {}, ![i].toks = {}]

\* await writeJSON(SESSIONS_PATH, arr) returns; finally releaseSessionLock()
PersistWrite(i) ==
    /\ Running
    /\ persist[i].pc = "writing"
    /\ mirror' = persist[i].snap
    /\ ReleaseSessionLock(i)
    /\ UNCHANGED <<storeVars, logVars, writeInProgress, sessions, load, now, tokens, sfaults, revoked, acctVars>>

\* writeJSON throws: 'Failed to persist sessions'; finally releaseSessionLock()
PersistFail(i) ==
    /\ Running
    /\ persist[i].pc = "writing"
    /\ sfaults < MaxFaults
    /\ sfaults' = sfaults + 1
    /\ ReleaseSessionLock(i)
    /\ UNCHANGED <<storeVars, logVars, writeInProgress, sessions, mirror, load, now, tokens, revoked, acctVars>>

\* loadSessions: arr = (await readJSON(SESSIONS_PATH)) || []
LoadRead ==
    /\ Running
    /\ load.pc = "reading"
    /\ load' = [pc |-> "apply", arr |-> mirror]
    /\ UNCHANGED <<storeVars, logVars, writeInProgress, sessions, mirror, sessionLock, persist, now, tokens,
                   sfaults, revoked, acctVars>>

\* loadSessions after the await: sessions.set for every unexpired entry
LoadApply ==
    /\ Running
    /\ load.pc = "apply"
    /\ sessions' = SetAll(sessions, Unexpired(load.arr, now))
    /\ load' = [pc |-> "done", arr |-> {}]
    /\ UNCHANGED <<storeVars, logVars, writeInProgress, mirror, sessionLock, persist, now, tokens, sfaults,
                   revoked, acctVars>>

\* time passes
Tick ==
    /\ now < MaxTime
    /\ now' = now + 1
    /\ UNCHANGED <<storeVars, logVars, writeInProgress, sessions, mirror, sessionLock, persist, load, tokens,
                   sfaults, revoked, acctVars>>

\* ----------------------------------------------------------- specifications
InitStore ==
    /\ file = Stringify(InitPosts)
    /\ sha = Sha256(Stringify(InitPosts))
    /\ bak = NoFile
    /\ lock = NoCall
    /\ cache = [p \in Procs |-> None]
    /\ version = [p \in Procs |-> 0]
    /\ call = [c \in Calls |-> Idle]
    /\ faults = 0
    /\ crashes = 0
    /\ completed = {InitPosts}
    /\ torn = None
    /\ failedW = [p \in Procs |-> FALSE]

\* one server process
Init == InitStore /\ live = {"A"} /\ SessQuiet /\ LogQuiet /\ WriteQueueIdle /\ AcctQuiet

\* two server processes on the same db directory
InitMulti == InitStore /\ live = Procs /\ SessQuiet /\ LogQuiet /\ WriteQueueIdle /\ AcctQuiet

\* two server processes long in service: each cache is null, current, or
\* left behind by a write of the other process
StaleCaches == {None, Opt(InitPosts), Opt(<<>>)}

InitStale ==
    /\ file = Stringify(InitPosts)
    /\ sha = Sha256(Stringify(InitPosts))
    /\ bak = NoFile
    /\ lock = NoCall
    /\ cache \in [Procs -> StaleCaches]
    /\ version = [p \in Procs |-> IF cache[p].set THEN 1 ELSE 0]
    /\ call = [c \in Calls |-> Idle]
    /\ faults = 0
    /\ crashes = 0
    /\ completed = {<<>>, InitPosts}
    /\ torn = None
    /\ failedW = [p \in Procs |-> FALSE]
    /\ live = Procs
    /\ SessQuiet /\ LogQuiet /\ WriteQueueIdle /\ AcctQuiet

Next ==
    \/ \E c \in Calls, p \in Procs, d \in CreateDates : StartCreate(c, p, d)
    \/ \E c \in Calls, p \in Procs, id \in TargetIds, d \in UpdateDates :
           StartUpdate(c, p, id, d)
    \/ \E c \in Calls, p \in Procs, id \in TargetIds : StartDelete(c, p, id)
    \/ \E c \in Calls : MutLock(c)
    \/ \E c \in Calls : MutLockFail(c)
    \/ \E c \in Calls : MutRead(c)
    \/ \E c \in Calls : MutWriteTmp(c)
    \/ \E c \in Calls : MutRenameData(c)
    \/ \E c \in Calls : MutRenameSha(c)
    \/ \E c \in Calls : MutCacheSwap(c)
    \/ \E c \in Calls : MutFault(c)
    \/ \E c \in Calls : MutRelease(c)
    \/ \E c \in Calls, p \in Procs : ReadHit(c, p)
    \/ \E c \in Calls, p \in Procs : ReadMiss(c, p)
    \/ \E c \in Calls : ReadFile(c)
    \/ \E c \in Calls : Hydrate(c)

NextCrash == Next \/ \E p \in Procs : Crash(p)

Spec == Init /\ [][Next]_vars
SpecMulti == InitMulti /\ [][Next]_vars
NextRelease == Next \/ \E c \in Calls : MutReleaseFail(c)

SpecCrash == Init /\ [][NextCrash]_vars

\* one server process whose lock releases can fail
SpecRelease == Init /\ [][NextRelease]_vars

\* the posts routes over the store: each mutator call is answered by its handler
NextRoute == NextRelease \/ \E c \in Calls : RouteAnswer(c)
SpecRoute == Init /\ [][NextRoute]_vars

\* the posts store receiving timed and all-day posts
NextAllDay ==
    \/ Next
    \/ \E c \in Calls, p \in Procs, d \in {2}, t \in CreateTimes, a \in BOOLEAN :
          StartCreatePost(c, p, d, t, a)
SpecAllDay == Init /\ [][NextAllDay]_vars
SpecStale == InitStale /\ [][Next]_vars

\* ------------------------------------------------------- db.js: writeJSON
Docs == {InitPosts, << [id |-> 2, date |-> 1, time |-> 600, isAllDay |-> FALSE] >>}

\* writeJSON(filePath, data): mkdir, then release = await lockfile.lock(...)
WStart(c, p, d) ==
    /\ CanStart(c) /\ p \in live
    /\ call' = [call EXCEPT ![c] = [Idle EXCEPT !.op = "writeJSON", !.proc = p,
                   !.pc = "lock", !.posts = d, !.payload = Stringify(d)]]
    /\ UNCHANGED <<sessVars, logVars, writeInProgress, file, sha, bak, lock, cache, version, live, faults, crashes,
                   completed, torn, failedW, acctVars>>

\* the lock is obtained
WLock(c) ==
    /\ call[c].op = "writeJSON" /\ call[c].pc = "lock"
    /\ LockFree
    /\ lock' = c
    /\ call' = [call EXCEPT ![c].pc = "backup"]
    /\ UNCHANGED <<sessVars, logVars, writeInProgress, file, sha, bak, cache, version, live, faults, crashes,
                   completed, torn, failedW, acctVars>>

\* a lock failure that is thrown to the caller
WLockFailMut(c) ==
    /\ call[c].op = "writeJSON" /\ call[c].pc = "lock"
    /\ ~LockFree
    /\ call' = [call EXCEPT ![c].pc = "release", ![c].res = "throw",
                            ![c].path = "nolock"]
    /\ UNCHANGED <<sessVars, logVars, writeInProgress, file, sha, bak, lock, cache, version, live, faults, crashes,
                   completed, torn, failedW, acctVars>>

\* lockfile.lock rejects after its retries; catch: "attempting direct write"
WLockFail(c) ==
    /\ call[c].op = "writeJSON" /\ call[c].pc = "lock"
    /\ ~LockFree
    /\ call' = [call EXCEPT ![c].pc = "direct1", ![c].path = "nolock"]
    /\ UNCHANGED <<sessVars, logVars, writeInProgress, file, sha, bak, lock, cache, version, live, faults, crashes,
                   completed, torn, failedW, acctVars>>

\* try { await fs.copyFile(filePath, filePath + '.backup') } catch {}
WBackup(c) ==
    /\ call[c].op = "writeJSON" /\ call[c].pc = "backup"
    /\ bak' = IF file = NoFile THEN bak ELSE file
    /\ call' = [call EXCEPT ![c].pc = "wtmp"]
    /\ UNCHANGED <<sessVars, logVars, writeInProgress, file, sha, lock, cache, version, live, faults, crashes,
                   completed, torn, failedW, acctVars>>

\* await fs.writeFile(tmpPath, payload); await fs.writeFile(checksumTmpPath)
WWriteTmp(c) ==
    /\ call[c].op = "writeJSON" /\ call[c].pc = "wtmp"
    /\ call' = [call EXCEPT ![c].pc = "rename1"]
    /\ UNCHANGED <<sessVars, logVars, writeInProgress, file, sha, bak, lock, cache, version, live, faults, crashes,
                   completed, torn, failedW, acctVars>>

\* await fs.rename(tmpPath, filePath)
WRenameData(c) ==
    /\ call[c].op = "writeJSON" /\ call[c].pc = "rename1"
    /\ file' = call[c].payload
    /\ call' = [call EXCEPT ![c].pc = "rename2"]
    /\ UNCHANGED <<sessVars, logVars, writeInProgress, sha, bak, lock, cache, version, live, faults, crashes,
                   completed, torn, failedW, acctVars>>

\* await fs.rename(checksumTmpPath, filePath + '.sha256'); the try block ends
WRenameSha(c) ==
    /\ call[c].op = "writeJSON" /\ call[c].pc = "rename2"
    /\ sha' = Sha256(call[c].payload)
    /\ call' = [call EXCEPT ![c].pc = "release", ![c].res = "ok"]
    /\ UNCHANGED <<sessVars, logVars, writeInProgress, file, bak, lock, cache, version, live, faults, crashes,
                   completed, torn, failedW, acctVars>>

\* a temp write or a rename rejects: the EXDEV and ENOENT branches and the
\* outer catch all go on to write the document and its digest in place
WFault(c) ==
    /\ call[c].op = "writeJSON" /\ call[c].pc \in {"wtmp", "rename1", "rename2"}
    /\ faults < MaxFaults
    /\ faults' = faults + 1
    /\ call' = [call EXCEPT ![c].pc = "direct1"]
    /\ UNCHANGED <<sessVars, logVars, writeInProgress, file, sha, bak, lock, cache, version, live, crashes,
                   completed, torn, failedW, acctVars>>

\* await fs.writeFile(filePath, payload)
WDirectData(c) ==
    /\ call[c].op = "writeJSON" /\ call[c].pc = "direct1"
    /\ file' = call[c].payload
    /\ call' = [call EXCEPT ![c].pc = "direct2"]
    /\ UNCHANGED <<sessVars, logVars, writeInProgress, sha, bak, lock, cache, version, live, faults, crashes,
                   completed, torn, failedW, acctVars>>

\* await fs.writeFile(filePath + '.sha256', checksum)
WDirectSha(c) ==
    /\ call[c].op = "writeJSON" /\ call[c].pc = "direct2"
    /\ sha' = Sha256(call[c].payload)
    /\ call' = [call EXCEPT ![c].pc = "release", ![c].res = "ok"]
    /\ UNCHANGED <<sessVars, logVars, writeInProgress, file, bak, lock, cache, version, live, faults, crashes,
                   completed, torn, failedW, acctVars>>

\* the direct write rejects too: "Direct writeJSON also failed"; throw err
WDirectFault(c) ==
    /\ call[c].op = "writeJSON" /\ call[c].pc \in {"direct1", "direct2"}
    /\ faults < MaxFaults
    /\ faults' = faults + 1
    /\ call' = [call EXCEPT ![c].pc = "release", ![c].res = "throw",
                            ![c].path = IF @ = "nolock" THEN "nolock-failed" ELSE @]
    /\ UNCHANGED <<sessVars, logVars, writeInProgress, file, sha, bak, lock, cache, version, live, crashes,
                   completed, torn, failedW, acctVars>>

\* finally: if (release) await release(); writeJSON returns or throws
WRelease(c) ==
    /\ call[c].op = "writeJSON" /\ call[c].pc = "release"
    /\ lock' = IF lock = c THEN NoCall ELSE lock
    /\ call' = [call EXCEPT ![c] = Returned(call[c], call[c].res)]
    /\ UNCHANGED <<sessVars, logVars, writeInProgress, file, sha, bak, cache, version, live, faults, crashes,
                   completed, torn, failedW, acctVars>>

\* finally: release() rejects (the lock was taken over as stale, or its marker
\* could not be removed and is left to go stale); catch: console.warn only
WReleaseFail(c) ==
    /\ call[c].op = "writeJSON" /\ call[c].pc = "release"
    /\ lock = c
    /\ faults < MaxFaults
    /\ faults' = faults + 1
    /\ lock' = NoCall
    /\ call' = [call EXCEPT ![c] = [Returned(call[c], call[c].res)
                                      EXCEPT !.path = "release-failed"]]
    /\ UNCHANGED <<sessVars, logVars, writeInProgress, file, sha, bak, cache, version, live,
                   crashes, completed, torn, failedW, acctVars>>

\* -------------------------------------------------------- db.js: readJSON
JNull == [r |-> "null", v |-> <<>>]
JThrow == [r |-> "throw", v |-> <<>>]

\* JSON.parse(data || 'null')
ParseJSON(b) == CASE b.k = "json" -> [r |-> "value", v |-> b.v]
                  [] b.k = "empty" -> JNull
                  [] OTHER -> JThrow

\* a reader that never compares the digest
ChecksumMismatchMut(stored, data) == FALSE

\* storedChecksum !== computedChecksum
ChecksumMismatch(stored, data) == stored # Sha256(data)

\* the backup branch: return JSON.parse(backupData || 'null'), and on a
\* missing or unparsable backup fall through to return JSON.parse(data)
FromBackup(backup, data) ==
    IF backup # NoFile /\ ParseJSON(backup) # JThrow
    THEN ParseJSON(backup) ELSE ParseJSON(data)

RJReturn(r, res) == [Idle EXCEPT !.op = r.op, !.proc = r.proc, !.pc = "done",
                                 !.res = res.r, !.posts = res.v]

\* readJSON(filePath), up to its first await: fs.readFile(filePath)
RJStart(c, p) ==
    /\ CanStart(c) /\ p \in live
    /\ call' = [call EXCEPT ![c] = [Idle EXCEPT !.op = "readJSON", !.proc = p,
                   !.pc = "rjdata"]]
    /\ UNCHANGED <<sessVars, logVars, writeInProgress, file, sha, bak, lock, cache, version, live, faults, crashes,
                   completed, torn, failedW, acctVars>>

\* data = await fs.readFile(filePath); ENOENT: return null
RJData(c) ==
    /\ call[c].op = "readJSON" /\ call[c].pc = "rjdata"
    /\ call' = IF file = NoFile
               THEN [call EXCEPT ![c] = RJReturn(call[c], JNull)]
               ELSE [call EXCEPT ![c].pc = "rjsha", ![c].payload = file]
    /\ UNCHANGED <<sessVars, logVars, writeInProgress, file, sha, bak, lock, cache, version, live, faults, crashes,
                   completed, torn, failedW, acctVars>>

\* storedChecksum = await fs.readFile(checksumPath): no digest file, or a
\* matching digest: return JSON.parse(data || 'null'); else the backup branch
RJSha(c) ==
    /\ call[c].op = "readJSON" /\ call[c].pc = "rjsha"
    /\ call' = IF sha # NoFile /\ ChecksumMismatch(sha, call[c].payload)
               THEN [call EXCEPT ![c].pc = "rjbak"]
               ELSE [call EXCEPT ![c] = RJReturn(call[c], ParseJSON(call[c].payload))]
    /\ UNCHANGED <<sessVars, logVars, writeInProgress, file, sha, bak, lock, cache, version, live, faults, crashes,
                   completed, torn, failedW, acctVars>>

\* backupData = await fs.readFile(backupPath)
RJBackup(c) ==
    /\ call[c].op = "readJSON" /\ call[c].pc = "rjbak"
    /\ call' = [call EXCEPT ![c] = RJReturn(call[c], FromBackup(bak, call[c].payload))]
    /\ UNCHANGED <<sessVars, logVars, writeInProgress, file, sha, bak, lock, cache, version, live, faults, crashes,
                   completed, torn, failedW, acctVars>>

\* a document written through writeJSON by any number of callers
InitDoc ==
    /\ InitStore
    /\ live = Procs
    /\ SessQuiet
    /\ LogQuiet /\ WriteQueueIdle /\ AcctQuiet

NextDoc ==
    \/ \E c \in Calls, p \in Procs, d \in Docs : WStart(c, p, d)
    \/ \E c \in Calls : WLock(c)
    \/ \E c \in Calls : WLockFail(c)
    \/ \E c \in Calls : WBackup(c)
    \/ \E c \in Calls : WWriteTmp(c)
    \/ \E c \in Calls : WRenameData(c)
    \/ \E c \in Calls : WRenameSha(c)
    \/ \E c \in Calls : WFault(c)
    \/ \E c \in Calls : WDirectData(c)
    \/ \E c \in Calls : WDirectSha(c)
    \/ \E c \in Calls : WDirectFault(c)
    \/ \E c \in Calls : WRelease(c)
    \/ \E c \in Calls : WReleaseFail(c)
    \/ \E c \in Calls, p \in Procs : RJStart(c, p)
    \/ \E c \in Calls : RJData(c)
    \/ \E c \in Calls : RJSha(c)
    \/ \E c \in Calls : RJBackup(c)

SpecDoc == InitDoc /\ [][NextDoc]_vars

\* readJSON on every state of the three files, none of them changing
FileStates == {NoFile, EmptyBytes, Garbage} \cup {Stringify(d) : d \in Docs}
ShaStates == {NoFile, Sha256(Garbage)} \cup {Sha256(Stringify(d)) : d \in Docs}

InitRead ==
    /\ file \in FileStates
    /\ sha \in ShaStates
    /\ bak \in FileStates
    /\ lock = NoCall
    /\ cache = [p \in Procs |-> None]
    /\ version = [p \in Procs |-> 0]
    /\ call = [c \in Calls |-> Idle]
    /\ live = {"A"}
    /\ faults = 0
    /\ crashes = 0
    /\ completed = {}
    /\ torn = None
    /\ failedW = [p \in Procs |-> FALSE]
    /\ SessQuiet
    /\ LogQuiet /\ WriteQueueIdle /\ AcctQuiet

NextRead ==
    \/ \E c \in Calls, p \in Procs : RJStart(c, p)
    \/ \E c \in Calls : RJData(c)
    \/ \E c \in Calls : RJSha(c)
    \/ \E c \in Calls : RJBackup(c)

SpecRead == InitRead /\ [][NextRead]_vars

\* the posts store started on any state of posts.json and its two siblings
InitCold ==
    /\ InitRead
    /\ ParsePosts(file) \in {<<>>, InitPosts}

SpecCold == InitCold /\ [][Next]_vars

\* the server process right after start: loadSessions() is in flight
InitSess == InitStore /\ live = {"A"} /\ SessInit /\ LogQuiet /\ WriteQueueIdle /\ AcctQuiet

NextSess ==
    \/ \E u \in Users, i \in PersistIds : CreateSession(u, i)
    \/ \E u \in Users, i \in PersistIds : RevokeSessionsForUser(u, i)
    \/ \E t \in 1..MaxTokens, i \in PersistIds : RevokeSession(t, i)
    \/ \E i \in PersistIds : Sweep(i)
    \/ \E i \in PersistIds : Shutdown(i)
    \/ \E i \in PersistIds : PersistSnapshot(i)
    \/ \E i \in PersistIds : PersistWrite(i)
    \/ \E i \in PersistIds : PersistFail(i)
    \/ LoadRead
    \/ LoadApply
    \/ Tick

SpecSess == InitSess /\ [][NextSess]_vars

\* every continuation that is ready runs, and every write of the mirror
\* that was started ends (with success or with an error)
SpecSessFair ==
    /\ InitSess
    /\ [][NextSess]_vars
    /\ \A i \in PersistIds : /\ WF_vars(PersistSnapshot(i))
                              /\ WF_vars(PersistWrite(i) \/ PersistFail(i))

\* ------------------------------------------ db-cache.js: writePostsOptimized
WriteCalls == 1..MaxWrites

\* the arrays handed to writePostsOptimized
WriteDocs == { << [id |-> 2, date |-> 3, time |-> NoTime, isAllDay |-> FALSE],
                  [id |-> 3, date |-> 1, time |-> NoTime, isAllDay |-> FALSE] >>,
               << [id |-> 4, date |-> 1, time |-> 600, isAllDay |-> FALSE] >> }

\* the steps of the async body: from its start to the end of its finally
WriteBody == {"lock", "wtmp", "rename1", "rename2", "swap", "release"}

\* all of the call's frame but call, lock, cache, file
wpFrame == <<bak, live, crashes, torn, failedW>>

\* writeInProgress = (async () => { sorted = posts.sort(cmp); ... await
\* lockfile.lock(...) ... })(): the body runs up to its first await
BeginBody(c, p, d) ==
    /\ call' = [call EXCEPT ![c] = [Idle EXCEPT !.op = "writePosts", !.proc = p,
                   !.pc = "lock", !.posts = SortPosts(d),
                   !.payload = Stringify(SortPosts(d))]]
    /\ writeInProgress' = [writeInProgress EXCEPT ![p] = c]

\* writePostsOptimized(posts): if (writeInProgress) await writeInProgress;
\* else the body starts at once
WPStart(c, p, d) ==
    /\ CanStart(c) /\ p \in live
    /\ IF writeInProgress[p] # NoCall
       THEN /\ call' = [call EXCEPT ![c] = [Idle EXCEPT !.op = "writePosts",
                          !.proc = p, !.pc = "wait", !.posts = d,
                          !.waits = writeInProgress[p]]]
            /\ UNCHANGED writeInProgress
       ELSE BeginBody(c, p, d)
    /\ UNCHANGED <<sessVars, logVars, file, sha, lock, cache, version, faults,
                   completed, wpFrame, acctVars>>

\* the awaited promise has resolved: the caller goes on to start its body
WPResume(c) ==
    /\ call[c].op = "writePosts" /\ call[c].pc = "wait"
    /\ call[call[c].waits].pc = "done" /\ call[call[c].waits].res = "ok"
    /\ BeginBody(c, call[c].proc, call[c].posts)
    /\ UNCHANGED <<sessVars, logVars, file, sha, lock, cache, version, faults,
                   completed, wpFrame, acctVars>>

\* the awaited promise has rejected: the await throws in the caller
WPWaitThrows(c) ==
    /\ call[c].op = "writePosts" /\ call[c].pc = "wait"
    /\ call[call[c].waits].pc = "done" /\ call[call[c].waits].res = "throw"
    /\ call' = [call EXCEPT ![c] = Returned(call[c], "throw")]
    /\ UNCHANGED <<sessVars, logVars, file, sha, lock, cache, version, faults,
                   completed, wpFrame, writeInProgress, acctVars>>

\* release = await lockfile.lock(POSTS_PATH, LOCK_OPTIONS) resolves
WPLock(c) ==
    /\ call[c].op = "writePosts" /\ call[c].pc = "lock"
    /\ LockFree
    /\ lock' = c
    /\ call' = [call EXCEPT ![c].pc = "wtmp"]
    /\ UNCHANGED <<sessVars, logVars, file, sha, cache, version, faults,
                   completed, wpFrame, writeInProgress, acctVars>>

\* lockfile.lock rejects; catch: invalidateCache(); throw err
WPLockFail(c) ==
    /\ call[c].op = "writePosts" /\ call[c].pc = "lock"
    /\ ~LockFree
    /\ InvalidateCache(call[c].proc)
    /\ call' = [call EXCEPT ![c].pc = "release", ![c].res = "throw"]
    /\ UNCHANGED <<sessVars, logVars, file, sha, lock, faults, completed, wpFrame,
                   writeInProgress, acctVars>>

\* await fs.writeFile(tmpPath, payload); await fs.writeFile(tmpPath + '.sha256')
WPWriteTmp(c) ==
    /\ call[c].op = "writePosts" /\ call[c].pc = "wtmp"
    /\ call' = [call EXCEPT ![c].pc = "rename1"]
    /\ UNCHANGED <<sessVars, logVars, file, sha, lock, cache, version, faults,
                   completed, wpFrame, writeInProgress, acctVars>>

\* await fs.rename(tmpPath, POSTS_PATH)
WPRenameData(c) ==
    /\ call[c].op = "writePosts" /\ call[c].pc = "rename1"
    /\ file' = call[c].payload
    /\ call' = [call EXCEPT ![c].pc = "rename2"]
    /\ UNCHANGED <<sessVars, logVars, sha, lock, cache, version, faults,
                   completed, wpFrame, writeInProgress, acctVars>>

\* await fs.rename(tmpPath + '.sha256', POSTS_PATH + '.sha256')
WPRenameSha(c) ==
    /\ call[c].op = "writePosts" /\ call[c].pc = "rename2"
    /\ sha' = Sha256(call[c].payload)
    /\ completed' = IF file = call[c].payload
                    THEN completed \cup {call[c].posts} ELSE completed
    /\ call' = [call EXCEPT ![c].pc = "swap"]
    /\ UNCHANGED <<sessVars, logVars, file, lock, cache, version, faults, wpFrame,
                   writeInProgress, acctVars>>

\* postsCache = sorted; cacheVersion++
WPCacheSwap(c) ==
    /\ call[c].op = "writePosts" /\ call[c].pc = "swap"
    /\ cache' = [cache EXCEPT ![call[c].proc] = Opt(call[c].posts)]
    /\ version' = [version EXCEPT ![call[c].proc] = @ + 1]
    /\ call' = [call EXCEPT ![c].pc = "release", ![c].res = "ok"]
    /\ UNCHANGED <<sessVars, logVars, file, sha, lock, faults, completed, wpFrame,
                   writeInProgress, acctVars>>

\* an awaited fs call rejects; catch: invalidateCache(); throw err
WPFault(c) ==
    /\ call[c].op = "writePosts" /\ call[c].pc \in {"wtmp", "rename1", "rename2"}
    /\ faults < MaxFaults
    /\ faults' = faults + 1
    /\ InvalidateCache(call[c].proc)
    /\ call' = [call EXCEPT ![c].pc = "release", ![c].res = "throw"]
    /\ UNCHANGED <<sessVars, logVars, file, sha, lock, completed, wpFrame,
                   writeInProgress, acctVars>>

\* finally: if (release) await release(); writeInProgress = null
WPRelease(c) ==
    /\ call[c].op = "writePosts" /\ call[c].pc = "release"
    /\ lock' = IF lock = c THEN NoCall ELSE lock
    /\ writeInProgress' = [writeInProgress EXCEPT ![call[c].proc] = NoCall]
    /\ call' = [call EXCEPT ![c] = Returned(call[c], call[c].res)]
    /\ UNCHANGED <<sessVars, logVars, file, sha, cache, version, faults,
                   completed, wpFrame, acctVars>>

\* finally: await release() rejects: the finally block is left at once, so
\* `writeInProgress = null` is not run and the body's promise rejects
WPReleaseFail(c) ==
    /\ call[c].op = "writePosts" /\ call[c].pc = "release"
    /\ lock = c
    /\ faults < MaxFaults
    /\ faults' = faults + 1
    /\ lock' = NoCall
    /\ call' = [call EXCEPT ![c] = Returned(call[c], "throw")]
    /\ UNCHANGED <<sessVars, logVars, file, sha, cache, version,
                   completed, wpFrame, writeInProgress, acctVars>>

\* one server process whose routes call writePostsOptimized
InitWrite ==
    /\ file = Stringify(InitPosts)
    /\ sha = Sha256(Stringify(InitPosts))
    /\ bak = NoFile
    /\ lock = NoCall
    /\ cache = [p \in Procs |-> None]
    /\ version = [p \in Procs |-> 0]
    /\ call = [c \in WriteCalls |-> Idle]
    /\ faults = 0
    /\ crashes = 0
    /\ completed = {InitPosts}
    /\ torn = None
    /\ failedW = [p \in Procs |-> FALSE]
    /\ live = {"A"}
    /\ SessQuiet /\ LogQuiet /\ WriteQueueIdle /\ AcctQuiet

NextWriteOf(S) ==
    \/ \E c \in S, p \in Procs, d \in WriteDocs : WPStart(c, p, d)
    \/ \E c \in S : WPResume(c)
    \/ \E c \in S : WPWaitThrows(c)
    \/ \E c \in S : WPLock(c)
    \/ \E c \in S : WPLockFail(c)
    \/ \E c \in S : WPWriteTmp(c)
    \/ \E c \in S : WPRenameData(c)
    \/ \E c \in S : WPRenameSha(c)
    \/ \E c \in S : WPCacheSwap(c)
    \/ \E c \in S : WPFault(c)
    \/ \E c \in S : WPRelease(c)

NextWrite == NextWriteOf(WriteCalls)

SpecWrite == InitWrite /\ [][NextWrite]_vars

\* writePostsOptimized where releasing the file lock can fail
NextWriteRelease == NextWrite \/ \E c \in WriteCalls : WPReleaseFail(c)
SpecWriteRelease == InitWrite /\ [][NextWriteRelease]_vars

\* ------------------------------------------------- db.js: the event log
\* LOCK_OPTIONS_FAST.retries.retries
RetriesFast == 5

LogOps == {"appendLog", "readLogs"}
NoLog == [exists |-> FALSE, lines |-> <<>>]
EmptyLog == [exists |-> TRUE, lines |-> <<>>]

\* a log file written by earlier requests
OldLine == [id |-> 9, time |-> 0]
OldLog == [exists |-> TRUE, lines |-> <<OldLine>>]

\* storeVars without call and faults
logFrame == <<file, sha, bak, lock, cache, version, live, crashes, completed,
              torn, failedW, writeInProgress>>

\* the entries the route handlers pass: without id and time, with the
\* handler's own time: Date.now(), or with an id as well (0, NoTime: no field)
CallerTime == 1
CallerId == 77
LogEntries == {NoPost, [NoPost EXCEPT !.time = CallerTime],
               [NoPost EXCEPT !.id = CallerId, !.time = CallerTime]}

\* now = Date.now() of appendLog, later than the handler's
StoreNow == 2

\* out = Object.assign({ id: genId(), time: now }, entry): the fields of the
\* entry replace the generated ones
LogRecord(c) ==
    [id |-> IF call[c].post.id # 0 THEN call[c].post.id ELSE call[c].id,
     time |-> IF call[c].post.time # NoTime THEN call[c].post.time ELSE StoreNow]

\* appendLog(entry), up to the first await of ensureLogsFile
ALStart(c, p, e) ==
    /\ CanStart(c) /\ p \in live
    /\ call' = [call EXCEPT ![c] = [Idle EXCEPT !.op = "appendLog", !.proc = p,
                   !.pc = "access", !.id = NewId(c), !.post = e]]
    /\ UNCHANGED <<sessVars, logVars, logFrame, faults, acctVars>>

\* readLogs(), up to the first await of ensureLogsFile
RLStart(c, p) ==
    /\ CanStart(c) /\ p \in live
    /\ call' = [call EXCEPT ![c] = [Idle EXCEPT !.op = "readLogs", !.proc = p,
                   !.pc = "access"]]
    /\ UNCHANGED <<sessVars, logVars, logFrame, faults, acctVars>>

\* what follows ensureLogsFile in each caller
AfterEnsure(op) == IF op = "appendLog" THEN "lock" ELSE "read"

\* ensureLogsFile: await fs.access(LOGS_ND_PATH) resolves or rejects
EnsureAccess(c) ==
    /\ call[c].op \in LogOps /\ call[c].pc = "access"
    /\ call' = [call EXCEPT ![c].pc = IF logfile.exists
                                      THEN AfterEnsure(call[c].op) ELSE "create"]
    /\ UNCHANGED <<sessVars, logVars, logFrame, faults, acctVars>>

\* ensureLogsFile: await fs.writeFile(LOGS_ND_PATH, '', { mode: 0o600 })
EnsureCreate(c) ==
    /\ call[c].op \in LogOps /\ call[c].pc = "create"
    /\ logfile' = EmptyLog
    /\ call' = [call EXCEPT ![c].pc = AfterEnsure(call[c].op)]
    /\ UNCHANGED <<sessVars, loglock, logFrame, faults, acctVars>>

\* release = await lockfile.lock(LOGS_ND_PATH, LOCK_OPTIONS_FAST) resolves
ALLock(c) ==
    /\ call[c].op = "appendLog" /\ call[c].pc = "lock"
    /\ loglock = NoCall
    /\ loglock' = c
    /\ call' = [call EXCEPT ![c].pc = "append", ![c].tries = 0]
    /\ UNCHANGED <<sessVars, logfile, logFrame, faults, acctVars>>

\* lockfile.lock finds the lock held and schedules one more attempt
ALRetry(c) ==
    /\ call[c].op = "appendLog" /\ call[c].pc = "lock"
    /\ loglock # NoCall
    /\ call[c].tries < RetriesFast
    /\ call' = [call EXCEPT ![c].tries = @ + 1]
    /\ UNCHANGED <<sessVars, logVars, logFrame, faults, acctVars>>

\* an appendLog that appends without the lock once its retries are used up
ALLockFailMut(c) ==
    /\ call[c].op = "appendLog" /\ call[c].pc = "lock"
    /\ loglock # NoCall
    /\ call[c].tries = RetriesFast
    /\ logfile' = [exists |-> TRUE, lines |-> Append(logfile.lines, LogRecord(c))]
    /\ call' = [call EXCEPT ![c] = Returned(call[c], "out")]
    /\ UNCHANGED <<sessVars, loglock, logFrame, faults, acctVars>>

\* lockfile.lock rejects after the last retry; catch: return null
ALLockFail(c) ==
    /\ call[c].op = "appendLog" /\ call[c].pc = "lock"
    /\ loglock # NoCall
    /\ call[c].tries = RetriesFast
    /\ call' = [call EXCEPT ![c] = Returned(call[c], "null")]
    /\ UNCHANGED <<sessVars, logVars, logFrame, faults, acctVars>>

\* await fs.appendFile(LOGS_ND_PATH, line, 'utf8'); return out
ALAppend(c) ==
    /\ call[c].op = "appendLog" /\ call[c].pc = "append"
    /\ logfile' = [exists |-> TRUE, lines |-> Append(logfile.lines, LogRecord(c))]
    /\ call' = [call EXCEPT ![c].pc = "release", ![c].res = "out"]
    /\ UNCHANGED <<sessVars, loglock, logFrame, faults, acctVars>>

\* fs.appendFile rejects; catch: return null
ALFault(c) ==
    /\ call[c].op = "appendLog" /\ call[c].pc = "append"
    /\ faults < MaxFaults
    /\ faults' = faults + 1
    /\ call' = [call EXCEPT ![c].pc = "release", ![c].res = "null"]
    /\ UNCHANGED <<sessVars, logVars, logFrame, acctVars>>

\* finally: if (release) { try { await release() } catch {} }
ALRelease(c) ==
    /\ call[c].op = "appendLog" /\ call[c].pc = "release"
    /\ loglock' = IF loglock = c THEN NoCall ELSE loglock
    /\ call' = [call EXCEPT ![c] = Returned(call[c], call[c].res)]
    /\ UNCHANGED <<sessVars, logfile, logFrame, faults, acctVars>>

\* finally: release() rejects; catch: 'Failed to release log lock'; the value
\* of the try or catch block is returned
ALReleaseFail(c) ==
    /\ call[c].op = "appendLog" /\ call[c].pc = "release"
    /\ loglock = c
    /\ faults < MaxFaults
    /\ faults' = faults + 1
    /\ loglock' = NoCall
    /\ call' = [call EXCEPT ![c] = Returned(call[c], call[c].res)]
    /\ UNCHANGED <<sessVars, logfile, logFrame, acctVars>>

\* readLogs: txt = await fs.readFile(LOGS_ND_PATH); the parsed lines, [] when
\* the file is empty or absent
RLRead(c) ==
    /\ call[c].op = "readLogs" /\ call[c].pc = "read"
    /\ call' = [call EXCEPT ![c] = [Returned(call[c], "lines")
                                      EXCEPT !.posts = logfile.lines]]
    /\ UNCHANGED <<sessVars, logVars, logFrame, faults, acctVars>>

InitLog ==
    /\ InitStore
    /\ live = Procs
    /\ SessQuiet
    /\ logfile \in {NoLog, EmptyLog, OldLog}
    /\ loglock = NoCall
    /\ WriteQueueIdle /\ AcctQuiet

NextLog ==
    \/ \E c \in Calls, p \in Procs, e \in LogEntries : ALStart(c, p, e)
    \/ \E c \in Calls, p \in Procs : RLStart(c, p)
    \/ \E c \in Calls : EnsureAccess(c)
    \/ \E c \in Calls : EnsureCreate(c)
    \/ \E c \in Calls : ALLock(c)
    \/ \E c \in Calls : ALRetry(c)
    \/ \E c \in Calls : ALLockFail(c)
    \/ \E c \in Calls : ALAppend(c)
    \/ \E c \in Calls : ALFault(c)
    \/ \E c \in Calls : ALRelease(c)
    \/ \E c \in Calls : ALReleaseFail(c)
    \/ \E c \in Calls : RLRead(c)

SpecLog == InitLog /\ [][NextLog]_vars

\* ------------------------------------------- every user of the file locks
\* one server process running every operation that takes a file lock
InitLocks ==
    /\ InitStore
    /\ live = {"A"}
    /\ SessQuiet /\ WriteQueueIdle /\ AcctQuiet
    /\ logfile \in {NoLog, EmptyLog}
    /\ loglock = NoCall

NextLocks ==
    \/ \E c \in Calls, p \in Procs, d \in CreateDates : StartCreate(c, p, d)
    \/ \E c \in Calls, p \in Procs, id \in TargetIds, d \in UpdateDates :
           StartUpdate(c, p, id, d)
    \/ \E c \in Calls, p \in Procs, id \in TargetIds : StartDelete(c, p, id)
    \/ \E c \in Calls : MutLock(c)
    \/ \E c \in Calls : MutLockFail(c)
    \/ \E c \in Calls : MutRead(c)
    \/ \E c \in Calls : MutWriteTmp(c)
    \/ \E c \in Calls : MutRenameData(c)
    \/ \E c \in Calls : MutRenameSha(c)
    \/ \E c \in Calls : MutCacheSwap(c)
    \/ \E c \in Calls : MutFault(c)
    \/ \E c \in Calls : MutRelease(c)
    \/ \E c \in Calls, p \in Procs, d \in Docs : WStart(c, p, d)
    \/ \E c \in Calls : WLock(c)
    \/ \E c \in Calls : WLockFail(c)
    \/ \E c \in Calls : WBackup(c)
    \/ \E c \in Calls : WWriteTmp(c)
    \/ \E c \in Calls : WRenameData(c)
    \/ \E c \in Calls : WRenameSha(c)
    \/ \E c \in Calls : WFault(c)
    \/ \E c \in Calls : WDirectData(c)
    \/ \E c \in Calls : WDirectSha(c)
    \/ \E c \in Calls : WDirectFault(c)
    \/ \E c \in Calls : WRelease(c)
    \/ \E c \in Calls : WReleaseFail(c)
    \/ \E c \in Calls, p \in Procs, e \in LogEntries : ALStart(c, p, e)
    \/ \E c \in Calls : EnsureAccess(c)
    \/ \E c \in Calls : EnsureCreate(c)
    \/ \E c \in Calls : ALLock(c)
    \/ \E c \in Calls : ALRetry(c)
    \/ \E c \in Calls : ALLockFail(c)
    \/ \E c \in Calls : ALAppend(c)
    \/ \E c \in Calls : ALFault(c)
    \/ \E c \in Calls : ALRelease(c)
    \/ NextWriteOf(Calls)

SpecLocks == InitLocks /\ [][NextLocks]_vars

\* ------------------------------------------- lockfile.lock: the retry loop
\* LOCK_OPTIONS.retries.retries
Retries == 10

\* one retry too many
WRetryMut(c) ==
    /\ call[c].op = "writeJSON" /\ call[c].pc = "lock"
    /\ ~LockFree
    /\ call[c].tries < Retries + 1
    /\ call' = [call EXCEPT ![c].tries = @ + 1]
    /\ UNCHANGED <<sessVars, logVars, writeInProgress, file, sha, bak, lock, cache,
                   version, live, faults, crashes, completed, torn, failedW, acctVars>>

\* lockfile.lock(filePath, LOCK_OPTIONS) finds the lock held and schedules one
\* more attempt
WRetry(c) ==
    /\ call[c].op = "writeJSON" /\ call[c].pc = "lock"
    /\ ~LockFree
    /\ call[c].tries < Retries
    /\ call' = [call EXCEPT ![c].tries = @ + 1]
    /\ UNCHANGED <<sessVars, logVars, writeInProgress, file, sha, bak, lock, cache,
                   version, live, faults, crashes, completed, torn, failedW, acctVars>>

\* lockfile.lock rejects once the last retry has found the lock held
WGiveUp(c) == call[c].tries = Retries /\ WLockFail(c)

\* one attempt of the lock's retry loop, whatever its outcome
WAttempt(c) == WLock(c) \/ WRetry(c) \/ WGiveUp(c)
ALAttempt(c) == ALLock(c) \/ ALRetry(c) \/ ALLockFail(c)

InitLock ==
    /\ InitStore
    /\ live = {"A"}
    /\ SessQuiet /\ LogQuiet /\ WriteQueueIdle /\ AcctQuiet

NextLock ==
    \/ \E c \in Calls, p \in Procs, d \in Docs : WStart(c, p, d)
    \/ \E c \in Calls : WLock(c)
    \/ \E c \in Calls : WRetry(c)
    \/ \E c \in Calls : WGiveUp(c)
    \/ \E c \in Calls : WBackup(c)
    \/ \E c \in Calls : WWriteTmp(c)
    \/ \E c \in Calls : WRenameData(c)
    \/ \E c \in Calls : WRenameSha(c)
    \/ \E c \in Calls : WFault(c)
    \/ \E c \in Calls : WDirectData(c)
    \/ \E c \in Calls : WDirectSha(c)
    \/ \E c \in Calls : WDirectFault(c)
    \/ \E c \in Calls : WRelease(c)
    \/ \E c \in Calls, p \in Procs, e \in LogEntries : ALStart(c, p, e)
    \/ \E c \in Calls : EnsureAccess(c)
    \/ \E c \in Calls : ALLock(c)
    \/ \E c \in Calls : ALRetry(c)
    \/ \E c \in Calls : ALLockFail(c)
    \/ \E c \in Calls : ALAppend(c)
    \/ \E c \in Calls : ALFault(c)
    \/ \E c \in Calls : ALRelease(c)

\* the timers of the retry loop fire: a pending attempt is eventually made
SpecLock ==
    /\ InitLock
    /\ [][NextLock]_vars
    /\ \A c \in Calls : WF_vars(WAttempt(c)) /\ WF_vars(ALAttempt(c))

\* ------------------------------------------------ server.js: POST /api/login
MaxWall == 4
MaxFailed == 7

\* 15 * 60 * 1000 ms, the unit of wall
Lockout == 1

\* failedLoginAttempts >= 5
Threshold == 5

Passwords == {"right", "wrong"}

\* user.lockUntil && user.lockUntil > Date.now()
Locked == account.lockUntil # 0 /\ account.lockUntil > wall

\* the response is sent; the slot is free for the next request
Respond(r, code) == [NoLogin EXCEPT !.status = code, !.known = r.known, !.pw = r.pw]

loginFrame == <<storeVars, sessVars, logVars, writeInProgress>>

\* the handler up to its first await: lockfile.lock(USERS_PATH, LOCK_OPTIONS)
LoginStart(l, k, pw) ==
    /\ login[l].pc = "idle"
    /\ account.failedLoginAttempts < MaxFailed
    /\ login' = [login EXCEPT ![l] = [NoLogin EXCEPT !.pc = "lock", !.known = k,
                                                     !.pw = pw]]
    /\ UNCHANGED <<loginFrame, account, ulock, wall, streak>>

\* the lock is taken; users = readJSON(USERS_PATH); an unknown user name is
\* answered 401 and a locked account 423; else await bcrypt.compare
LoginLock(l) ==
    /\ login[l].pc = "lock"
    /\ ulock = NoCall
    /\ ulock' = l
    /\ login' = [login EXCEPT ![l] =
                   IF ~login[l].known THEN [@ EXCEPT !.pc = "release", !.status = 401]
                   ELSE IF Locked THEN [@ EXCEPT !.pc = "release", !.status = 423]
                   ELSE [@ EXCEPT !.pc = "compare"]]
    /\ UNCHANGED <<loginFrame, account, wall, streak>>

\* lockfile.lock rejects after its retries: catch: 500; release is unset
LoginLockFail(l) ==
    /\ login[l].pc = "lock"
    /\ ulock # NoCall
    /\ login' = [login EXCEPT ![l] = Respond(login[l], 500)]
    /\ UNCHANGED <<loginFrame, account, ulock, wall, streak>>

\* bcrypt.compare resolves (a legacy hash that matches counts as matched);
\* the user's record is changed in memory, then await writeJSON(USERS_PATH)
LoginCompare(l) ==
    /\ login[l].pc = "compare"
    /\ LET n == account.failedLoginAttempts + 1
           nxt == IF login[l].pw = "right" THEN NoAccount
                  ELSE [failedLoginAttempts |-> n,
                        lockUntil |-> IF n >= Threshold THEN wall + Lockout
                                      ELSE account.lockUntil]
       IN  login' = [login EXCEPT ![l].pc = "write", ![l].next = nxt]
    /\ UNCHANGED <<loginFrame, account, ulock, wall, streak>>

\* writeJSON(USERS_PATH, users) resolves: 401 'Invalid', or createSession
\* and 200
LoginWrite(l) ==
    /\ login[l].pc = "write"
    /\ account' = login[l].next
    /\ streak' = IF login[l].pw = "right" THEN 0 ELSE streak + 1
    /\ login' = [login EXCEPT ![l] = [@ EXCEPT !.pc = "release", !.next = NoAccount,
                     !.status = IF login[l].pw = "right" THEN 200 ELSE 401]]
    /\ UNCHANGED <<loginFrame, ulock, wall>>

\* writeJSON throws: catch: 500, users.json unchanged
LoginWriteFail(l) ==
    /\ login[l].pc = "write"
    /\ faults < MaxFaults
    /\ faults' = faults + 1
    /\ login' = [login EXCEPT ![l] = [@ EXCEPT !.pc = "release", !.next = NoAccount,
                                                !.status = 500]]
    /\ UNCHANGED <<sessVars, logVars, writeInProgress, file, sha, bak, lock, cache,
                   version, call, live, crashes, completed, torn, failedW,
                   account, ulock, wall, streak>>

\* finally: if (release) await release()
LoginRelease(l) ==
    /\ login[l].pc = "release"
    /\ ulock' = IF ulock = l THEN NoCall ELSE ulock
    /\ login' = [login EXCEPT ![l] = Respond(login[l], login[l].status)]
    /\ UNCHANGED <<loginFrame, account, wall, streak>>

\* a quarter of an hour passes while no request is between its Date.now()
\* and its response; a lockout that ends starts a new count
WallTick ==
    /\ wall < MaxWall
    /\ \A l \in Logins : login[l].pc \in {"idle", "lock"}
    /\ wall' = wall + 1
    /\ streak' = IF Locked /\ account.lockUntil <= wall + 1 THEN 0 ELSE streak
    /\ UNCHANGED <<loginFrame, account, ulock, login>>

InitLogin == InitStore /\ live = {"A"} /\ SessQuiet /\ LogQuiet /\ WriteQueueIdle /\ AcctQuiet

NextLogin ==
    \/ \E l \in Logins, k \in BOOLEAN, pw \in Passwords : LoginStart(l, k, pw)
    \/ \E l \in Logins : LoginLock(l)
    \/ \E l \in Logins : LoginLockFail(l)
    \/ \E l \in Logins : LoginCompare(l)
    \/ \E l \in Logins : LoginWrite(l)
    \/ \E l \in Logins : LoginWriteFail(l)
    \/ \E l \in Logins : LoginRelease(l)
    \/ WallTick

SpecLogin == InitLogin /\ [][NextLogin]_vars

\* ------------------------------------------- routes/lists.js and the colour
\* route of server.js: lists.json (here file, sha, bak and lock are those
\* of LISTS_PATH, and a list is the sequence of its {name, color} items)
ListOps == {"listAdd", "listRemove", "listColor"}
ItemNames == {"todo", "done"}
\* the defaults server.js writes when lists.json does not exist
DefaultLists == << [name |-> "todo", color |-> 0] >>

\* state of the other documents and of the process, which list routes leave alone
listFrame == <<cache, version, live, crashes, completed, torn, failedW, sessVars,
               logVars, writeInProgress, acctVars>>

\* ensureLists(): JSON.parse(data || '{}'), and the defaults on any error
EnsureLists(b) == IF b.k = "json" THEN b.v ELSE <<>>

\* lists[type].push(toAdd)
PushItem(l, n) == Append(l, [name |-> n, color |-> 0])

\* lists[type].filter((item) => itemName !== decodedValue)
RECURSIVE FilterItem(_, _)
FilterItem(l, n) ==
    IF l = <<>> THEN <<>>
    ELSE IF Head(l).name = n THEN FilterItem(Tail(l), n)
    ELSE <<Head(l)>> \o FilterItem(Tail(l), n)

\* lists[type].find(...); item.color = color
RECURSIVE PaintItem(_, _, _)
PaintItem(l, n, col) ==
    IF l = <<>> THEN <<>>
    ELSE IF Head(l).name = n THEN <<[Head(l) EXCEPT !.color = col]>> \o Tail(l)
    ELSE <<Head(l)>> \o PaintItem(Tail(l), n, col)

\* (await readJSON(LISTS_PATH)) with the three files as they are now
ReadJSONNow ==
    IF file = NoFile THEN JNull
    ELSE IF sha # NoFile /\ ChecksumMismatch(sha, file) THEN FromBackup(bak, file)
    ELSE ParseJSON(file)

\* a list route up to `release = await lockfile.lock(LISTS_PATH, LOCK_OPTIONS)`
ListStart(c, op, n) ==
    /\ CanStart(c)
    /\ call' = [call EXCEPT ![c] = [Idle EXCEPT !.op = op, !.pc = "lock",
                   !.item = [name |-> n, color |-> 1]]]
    /\ UNCHANGED <<file, sha, bak, lock, faults, listFrame>>

\* lockfile.lock resolves
ListLock(c) ==
    /\ call[c].op \in ListOps /\ call[c].pc = "lock"
    /\ LockFree
    /\ lock' = c
    /\ call' = [call EXCEPT ![c].pc = "read"]
    /\ UNCHANGED <<file, sha, bak, faults, listFrame>>

\* lockfile.lock rejects after its retries: catch, 500; release is unset
ListLockFail(c) ==
    /\ call[c].op \in ListOps /\ call[c].pc = "lock"
    /\ ~LockFree
    /\ call' = [call EXCEPT ![c] = Returned(call[c], "error")]
    /\ UNCHANGED <<file, sha, bak, lock, faults, listFrame>>

\* POST /:type: lists = await ensureLists(); lists[type].push(toAdd)
ListAddRead(c) ==
    /\ call[c].op = "listAdd" /\ call[c].pc = "read"
    /\ call' = [call EXCEPT ![c].pc = "write",
                            ![c].payload = Stringify(PushItem(EnsureLists(file),
                                                              call[c].item.name))]
    /\ UNCHANGED <<file, sha, bak, lock, faults, listFrame>>

\* DELETE /:type/:value: ensureLists, filter; 404 when nothing was removed
ListRemoveRead(c) ==
    /\ call[c].op = "listRemove" /\ call[c].pc = "read"
    /\ LET cur == EnsureLists(file)
           new == FilterItem(cur, call[c].item.name)
       IN  call' = IF Len(new) = Len(cur)
                   THEN [call EXCEPT ![c].pc = "release", ![c].res = "notfound"]
                   ELSE [call EXCEPT ![c].pc = "write", ![c].payload = Stringify(new)]
    /\ UNCHANGED <<file, sha, bak, lock, faults, listFrame>>

\* await fs.writeFile(LISTS_PATH, JSON.stringify(lists, null, 2)); res.json
ListWrite(c) ==
    /\ call[c].op \in {"listAdd", "listRemove"} /\ call[c].pc = "write"
    /\ file' = call[c].payload
    /\ call' = [call EXCEPT ![c].pc = "release", ![c].res = "ok"]
    /\ UNCHANGED <<sha, bak, lock, faults, listFrame>>

\* PUT /api/lists/:type/color: lists = (await readJSON(LISTS_PATH)) || {};
\* find the item (404 when absent), set its colour, call writeJSON
ListColorRead(c) ==
    /\ call[c].op = "listColor" /\ call[c].pc = "read"
    /\ LET got == ReadJSONNow
           cur == IF got.r = "value" THEN got.v ELSE <<>>
       IN  call' =
             IF got = JThrow
             THEN [call EXCEPT ![c].pc = "release", ![c].res = "error"]
             ELSE IF \A i \in 1..Len(cur) : cur[i].name # call[c].item.name
             THEN [call EXCEPT ![c].pc = "release", ![c].res = "notfound"]
             ELSE [call EXCEPT ![c].pc = "wjlock",
                     ![c].payload = Stringify(PaintItem(cur, call[c].item.name,
                                                        call[c].item.color))]
    /\ UNCHANGED <<file, sha, bak, lock, faults, listFrame>>

\* writeJSON(LISTS_PATH, lists): its lockfile.lock(filePath, LOCK_OPTIONS)
\* finds the path locked (by the route itself) and rejects after its
\* retries; the outer catch goes on to the direct write
ListColorLockFail(c) ==
    /\ call[c].op = "listColor" /\ call[c].pc = "wjlock"
    /\ ~LockFree
    /\ call' = [call EXCEPT ![c].pc = "direct1", ![c].path = "nolock"]
    /\ UNCHANGED <<file, sha, bak, lock, faults, listFrame>>

\* writeJSON catch: await fs.writeFile(filePath, payload)
ListColorDirectData(c) ==
    /\ call[c].op = "listColor" /\ call[c].pc = "direct1"
    /\ file' = call[c].payload
    /\ call' = [call EXCEPT ![c].pc = "direct2"]
    /\ UNCHANGED <<sha, bak, lock, faults, listFrame>>

\* writeJSON catch: await fs.writeFile(filePath + '.sha256', checksum)
ListColorDirectSha(c) ==
    /\ call[c].op = "listColor" /\ call[c].pc = "direct2"
    /\ sha' = Sha256(call[c].payload)
    /\ call' = [call EXCEPT ![c].pc = "release", ![c].res = "ok"]
    /\ UNCHANGED <<file, bak, lock, faults, listFrame>>

\* finally: if (release) await release()
ListRelease(c) ==
    /\ call[c].op \in ListOps /\ call[c].pc = "release"
    /\ lock' = IF lock = c THEN NoCall ELSE lock
    /\ call' = [call EXCEPT ![c] = [Returned(call[c], call[c].res)
                                      EXCEPT !.path = call[c].path]]
    /\ UNCHANGED <<file, sha, bak, faults, listFrame>>

\* lists.json as server.js creates it: fs.writeFileSync, no digest, no backup
InitLists ==
    /\ file = Stringify(DefaultLists)
    /\ sha = NoFile
    /\ bak = NoFile
    /\ lock = NoCall
    /\ cache = [p \in Procs |-> None]
    /\ version = [p \in Procs |-> 0]
    /\ call = [c \in Calls |-> Idle]
    /\ faults = 0
    /\ crashes = 0
    /\ completed = {}
    /\ torn = None
    /\ failedW = [p \in Procs |-> FALSE]
    /\ live = {"A"} /\ SessQuiet /\ LogQuiet /\ WriteQueueIdle /\ AcctQuiet

NextLists ==
    \/ \E c \in Calls, op \in ListOps, n \in ItemNames : ListStart(c, op, n)
    \/ \E c \in Calls : ListLock(c)
    \/ \E c \in Calls : ListLockFail(c)
    \/ \E c \in Calls : ListAddRead(c)
    \/ \E c \in Calls : ListRemoveRead(c)
    \/ \E c \in Calls : ListWrite(c)
    \/ \E c \in Calls : ListColorRead(c)
    \/ \E c \in Calls : ListColorLockFail(c)
    \/ \E c \in Calls : ListColorDirectData(c)
    \/ \E c \in Calls : ListColorDirectSha(c)
    \/ \E c \in Calls : ListRelease(c)

SpecLists == InitLists /\ [][NextLists]_vars

\* --------------------------------------- server.js: /api/users (here file,
\* sha, bak and lock are those of USERS_PATH, and the document is the role
\* of each username, "none" for a username that has no record)
UserOps == {"userCreate", "userUpdate", "userDelete"}
Accounts == {"admin", "bob"}

\* req.body.role is not validated: "editor" stands for any other string
RoleValues == {"user", "admin", "editor"}

\* users.filter((u) => u.role === 'admin').length
AdminCount(doc) == Cardinality({u \in Accounts : doc[u] = "admin"})

\* requireAuth and requireAdmin: a live session of the requester whose role,
\* as stored when the session was created, is 'admin'
IsAdminSession(u) ==
    \E e \in sessions : e.username = u /\ e.role = "admin" /\ e.expires > now

\* state the user routes leave alone
userFrame == <<bak, cache, version, live, crashes, completed, torn, failedW, faults,
               logVars, writeInProgress, acctVars, load, now, tokens, sfaults>>

\* a user route up to `release = await lockfile.lock(USERS_PATH, LOCK_OPTIONS)`;
\* PUT answers 400 before that when the requester names themself
UserStart(c, op, by, target, role) ==
    /\ CanStart(c)
    /\ IsAdminSession(by)
    /\ call' = [call EXCEPT ![c] =
          IF op = "userUpdate" /\ target = by
          THEN [Idle EXCEPT !.op = op, !.pc = "done", !.res = "refused"]
          ELSE [Idle EXCEPT !.op = op, !.pc = "lock",
                            !.req = [by |-> by, target |-> target, role |-> role]]]
    /\ UNCHANGED <<file, sha, lock, sessions, mirror, sessionLock, persist, revoked, userFrame>>

\* lockfile.lock resolves
UserLock(c) ==
    /\ call[c].op \in UserOps /\ call[c].pc = "lock"
    /\ LockFree
    /\ lock' = c
    /\ call' = [call EXCEPT ![c].pc = "read"]
    /\ UNCHANGED <<file, sha, sessions, mirror, sessionLock, persist, revoked, userFrame>>

\* lockfile.lock rejects after its retries: catch, 500; release is unset
UserLockFail(c) ==
    /\ call[c].op \in UserOps /\ call[c].pc = "lock"
    /\ ~LockFree
    /\ call' = [call EXCEPT ![c] = Returned(call[c], "error")]
    /\ UNCHANGED <<file, sha, lock, sessions, mirror, sessionLock, persist, revoked, userFrame>>

\* POST /api/users after the read: 409 when the name exists, else push
CreateUser(doc, r) ==
    IF doc[r.target] # "none" THEN [res |-> "refused", doc |-> doc]
    ELSE [res |-> "ok", doc |-> [doc EXCEPT ![r.target] = r.role]]

\* PUT /api/users/:username after the read: 404, the last-administrator
\* guard (only for role === 'user'), users[idx].role = role
UpdateUser(doc, r) ==
    IF doc[r.target] = "none" THEN [res |-> "notfound", doc |-> doc]
    ELSE IF doc[r.target] = "admin" /\ r.role = "user" /\ AdminCount(doc) <= 1
    THEN [res |-> "refused", doc |-> doc]
    ELSE [res |-> "ok", doc |-> [doc EXCEPT ![r.target] = r.role]]

\* DELETE /api/users/:username after the read: 404, self-deletion blocked,
\* last administrator blocked, filter
DeleteUser(doc, r) ==
    IF doc[r.target] = "none" THEN [res |-> "notfound", doc |-> doc]
    ELSE IF r.target = r.by THEN [res |-> "refused", doc |-> doc]
    ELSE IF doc[r.target] = "admin" /\ AdminCount(doc) <= 1
    THEN [res |-> "refused", doc |-> doc]
    ELSE [res |-> "ok", doc |-> [doc EXCEPT ![r.target] = "none"]]

\* users = (await readJSON(USERS_PATH)) || []; the checks and the change;
\* then writeJSON is called, or the route answers 4xx
UserRead(c) ==
    /\ call[c].op \in UserOps /\ call[c].pc = "read"
    /\ LET got == ReadJSONNow
           doc == IF got.r = "value" THEN got.v ELSE [u \in Accounts |-> "none"]
           new == CASE call[c].op = "userCreate" -> CreateUser(doc, call[c].req)
                    [] call[c].op = "userUpdate" -> UpdateUser(doc, call[c].req)
                    [] OTHER -> DeleteUser(doc, call[c].req)
       IN  call' =
             IF got = JThrow
             THEN [call EXCEPT ![c].pc = "release", ![c].res = "error"]
             ELSE IF new.res # "ok"
             THEN [call EXCEPT ![c].pc = "release", ![c].res = new.res]
             ELSE [call EXCEPT ![c].pc = "wjlock", ![c].payload = Stringify(new.doc)]
    /\ UNCHANGED <<file, sha, lock, sessions, mirror, sessionLock, persist, revoked, userFrame>>

\* writeJSON(USERS_PATH, users): its lockfile.lock finds the path locked by
\* the route itself and rejects; the outer catch goes on to the direct write
UserWriteLockFail(c) ==
    /\ call[c].op \in UserOps /\ call[c].pc = "wjlock"
    /\ ~LockFree
    /\ call' = [call EXCEPT ![c].pc = "direct1", ![c].path = "nolock"]
    /\ UNCHANGED <<file, sha, lock, sessions, mirror, sessionLock, persist, revoked, userFrame>>

\* writeJSON catch: await fs.writeFile(filePath, payload)
UserDirectData(c) ==
    /\ call[c].op \in UserOps /\ call[c].pc = "direct1"
    /\ file' = call[c].payload
    /\ call' = [call EXCEPT ![c].pc = "direct2"]
    /\ UNCHANGED <<sha, lock, sessions, mirror, sessionLock, persist, revoked, userFrame>>

\* writeJSON catch: await fs.writeFile(filePath + '.sha256', checksum);
\* writeJSON returns: create answers, update and delete go on to revoke
UserDirectSha(c) ==
    /\ call[c].op \in UserOps /\ call[c].pc = "direct2"
    /\ sha' = Sha256(call[c].payload)
    /\ call' = IF call[c].op = "userCreate"
               THEN [call EXCEPT ![c].pc = "release", ![c].res = "ok"]
               ELSE [call EXCEPT ![c].pc = "revoke"]
    /\ UNCHANGED <<file, lock, sessions, mirror, sessionLock, persist, revoked, userFrame>>

\* await revokeSessionsForUser(targetUsername), up to its await: the
\* target's sessions leave the map and persistSessions is called
UserRevoke(c, i) ==
    /\ call[c].op \in {"userUpdate", "userDelete"} /\ call[c].pc = "revoke"
    /\ FreePersist(i)
    /\ sessions' = sessions \ OfUser(sessions, call[c].req.target)
    /\ revoked' = revoked \cup {e.token : e \in OfUser(sessions \cup mirror, call[c].req.target)}
    /\ CallPersist(i, "revoke", {e.token : e \in OfUser(sessions \cup mirror, call[c].req.target)})
    /\ call' = [call EXCEPT ![c].pc = "revoking", ![c].waits = i]
    /\ UNCHANGED <<file, sha, lock, mirror, userFrame>>

\* the awaited persistSessions has finished: res.json({ ok: true })
UserAnswer(c) ==
    /\ call[c].op \in {"userUpdate", "userDelete"} /\ call[c].pc = "revoking"
    /\ persist[call[c].waits].pc = "done"
    /\ call' = [call EXCEPT ![c].pc = "release", ![c].res = "ok"]
    /\ UNCHANGED <<file, sha, lock, sessions, mirror, sessionLock, persist, revoked, userFrame>>

\* finally: if (release) await release()
UserRelease(c) ==
    /\ call[c].op \in UserOps /\ call[c].pc = "release"
    /\ lock' = IF lock = c THEN NoCall ELSE lock
    /\ call' = [call EXCEPT ![c] = Returned(call[c], call[c].res)]
    /\ UNCHANGED <<file, sha, sessions, mirror, sessionLock, persist, revoked, userFrame>>

\* the session a login of u creates while the document gives u the role r
SessionFor(u, r) == [token |-> IF u = "admin" THEN 1 ELSE 2, username |-> u,
                     role |-> r, expires |-> SessionTtl]

\* a server in service: the bootstrap admin exists, bob has no record or
\* any role, and every user with a record may be logged in
InitUsers ==
    /\ \E r \in RoleValues \cup {"none"}, in \in SUBSET Accounts :
          /\ file = Stringify([u \in Accounts |-> IF u = "admin" THEN "admin" ELSE r])
          /\ r = "none" => "bob" \notin in
          /\ sessions = {SessionFor(u, IF u = "admin" THEN "admin" ELSE r) : u \in in}
    /\ sha = Sha256(file)
    /\ mirror = sessions
    /\ bak = NoFile
    /\ lock = NoCall
    /\ cache = [p \in Procs |-> None]
    /\ version = [p \in Procs |-> 0]
    /\ call = [c \in Calls |-> Idle]
    /\ faults = 0
    /\ crashes = 0
    /\ completed = {}
    /\ torn = None
    /\ failedW = [p \in Procs |-> FALSE]
    /\ live = {"A"}
    /\ sessionLock = [locked |-> FALSE, queue |-> <<>>]
    /\ persist = [i \in PersistIds |-> NoPersist]
    /\ load = [pc |-> "done", arr |-> {}]
    /\ now = 0
    /\ tokens = 0
    /\ sfaults = 0
    /\ revoked = {}
    /\ LogQuiet /\ WriteQueueIdle /\ AcctQuiet

NextUsers ==
    \/ \E c \in Calls, op \in UserOps, by \in Accounts, target \in Accounts,
          role \in RoleValues : UserStart(c, op, by, target, role)
    \/ \E c \in Calls : UserLock(c)
    \/ \E c \in Calls : UserLockFail(c)
    \/ \E c \in Calls : UserRead(c)
    \/ \E c \in Calls : UserWriteLockFail(c)
    \/ \E c \in Calls : UserDirectData(c)
    \/ \E c \in Calls : UserDirectSha(c)
    \/ \E c \in Calls, i \in PersistIds : UserRevoke(c, i)
    \/ \E c \in Calls : UserAnswer(c)
    \/ \E c \in Calls : UserRelease(c)
    \/ \E i \in PersistIds : PersistSnapshot(i)
    \/ \E i \in PersistIds : PersistWrite(i)

SpecUsers == InitUsers /\ [][NextUsers]_vars

\* ------------------------------------------------------------------ claims
Quiescent == \A c \in Calls : ~InFlight(c)

\* C2: a write cut by a crash between its two renames is repaired by the next
\* read: the read returns the content the document had before that write.
C2_TornWriteReadsBackup ==
    \A c \in Calls :
        (call[c].op = "read" /\ call[c].pc = "hydrate" /\ call[c].sawTorn.set)
            => ParsePosts(call[c].payload) = call[c].sawTorn.v

\* C3: atomicUpdatePost / atomicDeletePost with an id that no post of the
\* on-disk collection has yield 'Post not found', and the document file and
\* its digest file are what they were when the call read them.
C3_NotFoundLeavesDisk ==
    \A c \in Calls :
        ( /\ call[c].op \in {"update", "delete"}
          /\ call[c].pc = "release"
          /\ call[c].id \notin Ids(ParsePosts(call[c].seenFile)) )
            => /\ call[c].res = "notfound"
               /\ file = call[c].seenFile
               /\ sha = call[c].seenSha

C3_Witness ==
    \E c \in Calls :
        /\ call[c].op \in {"update", "delete"}
        /\ call[c].pc = "release"
        /\ call[c].res = "notfound"
        /\ \E o \in Calls : call[o].op = "create" /\ call[o].pc = "lock"

\* C4: after a failed write, with no write in flight, what the next
\* readPostsOptimized of that process returns (the cache when it is set) is
\* the content on disk.
C4_NextReadFromDisk ==
    \A p \in live :
        (failedW[p] /\ ~WriteInFlight /\ cache[p].set)
            => cache[p].v = ParsePosts(file)

OnlyCreates == \A c \in Calls : call[c].op \in {"none", "create"}
Occurrences(s, id) == Cardinality({i \in 1..Len(s) : s[i].id = id})

C7_CacheHoldsCompletedWrite ==
    \A p \in live : cache[p].set => cache[p].v \in completed

\* C10: in one process, with no write and no hydration in flight, a non-null
\* cache equals the parsed content of posts.json.
C10_CacheEqualsDisk ==
    (live = {"A"} /\ Quiescent /\ cache["A"].set)
        => cache["A"].v = ParsePosts(file)

WriteJSONActive(c) == call[c].op = "writeJSON" /\ InFlight(c)

\* C1: when no write of the document is in progress and every write so far
\* returned successfully, the .sha256 file holds the SHA-256 of the file.
C1_DigestMatchesFile ==
    ( /\ \A c \in Calls : ~WriteJSONActive(c)
      /\ \A c \in Calls : call[c].op = "writeJSON" => call[c].res = "ok"
      /\ faults = 0 )
        => sha = Sha256(file)

\* a writer that has changed the data file and not yet the digest file
MidWrite(c) == call[c].op = "writeJSON" /\ call[c].pc \in {"rename2", "direct2"}

\* C8: no two writers are changing the data or digest file of one path at once.
C8_WritersSerialized ==
    \A c, d \in Calls : (MidWrite(c) /\ MidWrite(d)) => c = d

\* C9: with a digest file that does not match the document's bytes, readJSON
\* returns the parsed backup when the backup exists and parses, else the
\* parsed primary; it does not raise when the primary parses.
C9_MismatchReadsBackup ==
    \A c \in Calls :
        ( /\ call[c].op = "readJSON" /\ call[c].pc = "done"
          /\ file # NoFile /\ sha # NoFile /\ sha # Sha256(file) )
            => LET got == [r |-> call[c].res, v |-> call[c].posts]
               IN  IF bak # NoFile /\ ParseJSON(bak) # JThrow
                   THEN got = ParseJSON(bak)
                   ELSE got = ParseJSON(file)

C9_Witness ==
    \E c \in Calls :
        /\ call[c].op = "readJSON" /\ call[c].pc = "done"
        /\ file # NoFile /\ sha # NoFile /\ sha # Sha256(file)
        /\ bak # NoFile /\ ParseJSON(bak) # JThrow
        /\ call[c].res = "value"
        /\ call[c].posts = bak.v
        /\ ParseJSON(file) # ParseJSON(bak)

\* C6: once revokeSessionsForUser(u) has been called, no token that belonged
\* to u at the call (in the map, in the mirror or in the array the startup
\* load has read) is accepted by requireAuth in any later state.
C6_RevokedNeverAccepted ==
    \A t \in revoked : ~Accepted(t)

\* what a readPostsOptimized call made now by process p returns when nothing
\* else runs in between: the cache when it is set, else the parsed file
NextReadValue(p) == IF cache[p].set THEN cache[p].v ELSE ParsePosts(file)

\* ascending by (date, time) under the comparator of the sorts
IsSorted(s) == \A i, j \in 1..Len(s) : i < j => Cmp(s[i], s[j]) <= 0

\* C11: after a successful atomicCreatePost, once nothing is in flight, the
\* next readPostsOptimized returns a collection ordered ascending by
\* (date, time) that holds the created post (before the posts of later date).
C11_CreatedReturnedInOrder ==
    \A c \in Calls :
        ( /\ Quiescent
          /\ call[c].op = "create" /\ call[c].res = "ok"
          /\ \A o \in Calls : call[o].op # "delete" )
            => /\ IsSorted(NextReadValue(call[c].proc))
               /\ call[c].id \in Ids(NextReadValue(call[c].proc))

\* C12 as claimed: a writeJSON whose lock attempt was given up returns without
\* throwing.
C12_NoLockNeverThrows ==
    \A c \in Calls :
        (call[c].pc = "release" /\ call[c].path \in {"nolock", "nolock-failed"})
            => call[c].res = "ok"

\* C12 amended: a writeJSON whose lock attempt was given up never holds the
\* lock; it returns without throwing when both direct writes succeeded, and
\* throws when a direct write failed.
C12_NoLockReturnsUnlessWriteFails ==
    \A c \in Calls :
        /\ call[c].path \in {"nolock", "nolock-failed"} => lock # c
        /\ (call[c].pc = "release" /\ call[c].path = "nolock") => call[c].res = "ok"
        /\ (call[c].pc = "release" /\ call[c].path = "nolock-failed")
              => call[c].res = "throw"

C12_Witness ==
    \E c \in Calls :
        /\ call[c].pc = "release" /\ call[c].path = "nolock" /\ call[c].res = "ok"
        /\ file = call[c].payload /\ sha = Sha256(call[c].payload)
        /\ lock # NoCall

\* s is a prefix of t
IsPrefix(s, t) == Len(s) <= Len(t) /\ SubSeq(t, 1, Len(s)) = s

RunningBodies == {c \in DOMAIN call : call[c].op = "writePosts" /\ call[c].pc \in WriteBody}

LockOps == MutOps \cup {"writeJSON", "writePosts", "appendLog"}

\* C13: an operation that has finished holds neither file lock, whatever exit
\* path it took; and the step that ends a writeJSON, a failing release
\* included, delivers the outcome the write had reached.
C13_LockReleasedOnEveryExit ==
    /\ [](\A c \in Calls : (call[c].op \in LockOps /\ call[c].pc = "done")
                               => (lock # c /\ loglock # c))
    /\ [][\A c \in Calls :
            (call[c].op = "writeJSON" /\ call[c].pc = "release" /\ call'[c].pc = "done")
                => call'[c].res = call[c].res]_vars

C13_Witness ==
    \E c, o \in Calls :
        /\ call[c].op = "writeJSON" /\ call[c].pc = "done"
        /\ call[c].path = "release-failed" /\ call[c].res = "ok"
        /\ call[o].op \in {"update", "delete"} /\ call[o].pc = "done"
        /\ call[o].res = "notfound"
        /\ lock = NoCall

\* the retries the profile of an operation allows
RetriesOf(op) == IF op = "appendLog" THEN RetriesFast ELSE Retries

\* C15: every attempt to take a file lock ends, with the lock or with a
\* failure, and makes at most 10 retries (5 with the log profile).
C15_LockAttemptTerminates ==
    /\ [](\A c \in Calls : call[c].tries <= RetriesOf(call[c].op))
    /\ \A c \in Calls : (call[c].pc = "lock") ~> (call[c].pc # "lock")

C15_Witness ==
    \E c \in Calls :
        /\ call[c].op = "writeJSON" /\ call[c].path = "nolock"
        /\ call[c].tries = Retries
        /\ lock # NoCall /\ lock # c

\* C17: the step in which createSession returns leaves its token in the map
\* with expiry = creation time + ttl, accepted by the lookup, with the persist
\* it scheduled still to run (the mirror untouched); and no later step of a
\* persist, successful or failed, changes the map.
C17_CreatedSessionUsable ==
    /\ [][tokens' = tokens + 1 =>
            /\ \E e \in sessions' : /\ e.token = tokens'
                                    /\ e.expires = now + SessionTtl
                                    /\ e.expires > now'
            /\ mirror' = mirror
            /\ \E i \in PersistIds : /\ persist[i].pc = "idle"
                                     /\ persist'[i].pc \in {"queued", "granted"}
                                     /\ persist'[i].by = "create"]_vars
    /\ [][(\E i \in PersistIds : /\ persist[i].pc \in {"granted", "writing"}
                                 /\ persist'[i].pc # persist[i].pc)
            => sessions' = sessions]_vars

C17_Witness ==
    \E e \in sessions, i \in PersistIds :
        /\ e.token \in 1..tokens /\ Accepted(e.token)
        /\ persist[i].by = "create" /\ persist[i].pc = "done"
        /\ sfaults = 1
        /\ \A m \in mirror : m.token # e.token

\* C18: when revokeSessionsForUser(username) returns (its awaited
\* persistSessions has finished), neither the in-memory map nor the on-disk
\* mirror holds a session of that user that existed when it was called.
C18_RevokeReturnsClean ==
    [][\A i \in PersistIds :
          (/\ persist[i].by = "revoke"
           /\ persist[i].pc = "writing"
           /\ persist'[i].pc = "done")
          => \A e \in sessions' \cup mirror' : e.token \notin persist[i].toks]_vars

\* C19: readJSON on a document whose primary file does not parse returns the
\* parsed backup whenever a parseable backup exists, whether the digest file
\* is absent, matches the bytes or mismatches them, instead of raising.
C19_UnparsablePrimaryReadsBackup ==
    \A c \in Calls :
        (/\ call[c].op = "readJSON" /\ call[c].pc = "done"
         /\ file # NoFile /\ ParseJSON(file) = JThrow
         /\ bak # NoFile /\ ParseJSON(bak) # JThrow)
        => /\ call[c].res = ParseJSON(bak).r
           /\ call[c].posts = ParseJSON(bak).v

\* C20: when atomicCreatePost, atomicUpdatePost or atomicDeletePost returns a
\* failure after one of its steps failed, the posts cache of its process is
\* null and the posts file holds either the complete content the call read
\* or the complete content it meant to write.
C20_FailureLeavesCacheNull ==
    [][\A c \in Calls :
          (/\ call[c].op \in MutOps
           /\ call[c].pc # "done" /\ call'[c].pc = "done"
           /\ call'[c].res = "error")
          => /\ ~cache'[call[c].proc].set
             /\ file' = file
             /\ call[c].pc = "release" => file' \in {call[c].seenFile, call[c].payload}]_vars

\* C21: the account becomes locked exactly when the user has accumulated
\* five failed logins since the last successful login or since the last
\* lockout ended; while it is locked every login is refused, also one with
\* the right password; the lock ends 15 minutes after it was set.
C21_LockedExactlyAfterFiveFailures ==
    /\ [][(~Locked /\ Locked') <=> (streak # Threshold /\ streak' = Threshold)]_vars
    /\ [][\A l \in Logins :
             (login[l].pc = "lock" /\ login'[l].pc # "lock" /\ login[l].known /\ Locked)
             => login'[l].status \in {423, 500}]_vars
    /\ [][(account'.lockUntil # account.lockUntil /\ account'.lockUntil # 0)
             => account'.lockUntil = wall + Lockout]_vars

\* C22: the cache version of a process never decreases, and it strictly
\* increases on every transition that changes the cached value: hydration
\* (also from a missing file), successful mutation, invalidation.
C22_VersionBumpsWithCache ==
    [][\A p \in Procs :
          /\ version'[p] >= version[p]
          /\ cache'[p] # cache[p] => version'[p] > version[p]]_vars

\* C23: readPostsOptimized on a null cache reads through the digest check:
\* when the digest file exists and does not match the bytes of posts.json
\* and a backup exists, the value cached is the backup's content.
C23_ColdReadVerifiesDigest ==
    [][\A c \in Calls :
          (/\ call[c].op = "read" /\ call[c].pc = "hydrate" /\ call'[c].pc = "done"
           /\ ~WriteInFlight
           /\ file # NoFile /\ call[c].payload = file
           /\ sha # NoFile /\ ChecksumMismatch(sha, file)
           /\ bak.k = "json")
          => cache'[call[c].proc] = Opt(ParsePosts(bak))]_vars

\* the collections that the mutation of a returned call c can make of posts
\* (the call no longer knows the date it was given)
Replay(posts, c) ==
    LET idx == FindIndex(posts, call[c].id)
    IN  CASE call[c].op = "create" ->
                 {CreateApply(posts, [id |-> call[c].id, date |-> d, time |-> 600, isAllDay |-> FALSE]) :
                      d \in CreateDates}
          [] call[c].op = "update" /\ idx > 0 ->
                 {UpdateApply(posts, idx, d) : d \in UpdateDates}
          [] call[c].op = "delete" /\ idx > 0 -> {DeleteApply(posts, idx)}
          [] OTHER -> {}

RECURSIVE ReplayAll(_, _)
ReplayAll(colls, order) ==
    IF order = <<>> THEN colls
    ELSE ReplayAll(UNION {Replay(posts, Head(order)) : posts \in colls}, Tail(order))

Orders == {o \in [1..MaxCalls -> Calls] : \A i, j \in 1..MaxCalls : o[i] = o[j] => i = j}

AllSucceeded == Quiescent /\ \A c \in Calls : call[c].op \in MutOps /\ call[c].res = "ok"

\* C24: when mutators of processes with independent caches have all
\* succeeded, the collection on disk is the one obtained by applying all of
\* them, one after the other, to the initial collection: no update is lost,
\* whatever the caches held.
C24_NoLostUpdateAcrossProcesses ==
    AllSucceeded => \E o \in Orders : ParsePosts(file) \in ReplayAll({InitPosts}, o)

C24_Witness ==
    /\ AllSucceeded
    /\ \E c, d \in Calls : call[c].proc # call[d].proc
    /\ \A p \in Procs : cache[p].set
    /\ \E p \in Procs : cache[p].v # ParsePosts(file)

\* C25: atomicCreatePost, atomicUpdatePost and atomicDeletePost never
\* reject: on every path, also when the lock is not acquired or its release
\* fails, the call resolves with a result object (success true or false).
C25_MutatorsNeverReject ==
    \A c \in Calls :
        (call[c].op \in MutOps /\ call[c].pc = "done")
            => call[c].res \in {"ok", "error", "notfound"}

\* C26: whichever write path (writeJSON with the lock, its unlocked
\* fallback, writePostsOptimized, an atomic mutator) replaces the content of
\* a document that already existed, path.backup then holds the content that
\* was replaced, i.e. that of the previous write.
C26_BackupHoldsPreviousWrite ==
    [][(file' # file /\ file # NoFile) => bak' = file]_vars

\* C27: every record appended by appendLog carries an id generated by the
\* store and the time taken by the store at the append, whatever id or time
\* fields the caller's entry has.
C27_LogRecordStamped ==
    \A i \in 1..Len(logfile.lines) :
        logfile.lines[i] # OldLine
            => /\ logfile.lines[i].id \in {NewId(c) : c \in Calls}
               /\ logfile.lines[i].time = StoreNow

\* C28: each appendLog call either appends exactly one complete line while
\* it holds the log lock and returns the record, or (lock not acquired,
\* append failed) appends nothing and returns null; it never throws and the
\* file never grows without the lock being held by the appending call.
C28_AppendLockedOrNothing ==
    /\ [][Len(logfile'.lines) > Len(logfile.lines) =>
             \E c \in Calls : /\ call[c].op = "appendLog" /\ call[c].pc = "append"
                               /\ loglock = c
                               /\ logfile'.lines = Append(logfile.lines, LogRecord(c))
                               /\ call'[c].res = "out"]_vars
    /\ [][\A c \in Calls :
             (call[c].op = "appendLog" /\ call[c].pc # "done" /\ call'[c].pc = "done")
             => /\ call'[c].res \in {"out", "null"}
                /\ call[c].res # "out" => /\ call'[c].res = "null"
                                          /\ logfile' = logfile]_vars

C28_Witness ==
    /\ \E c, d \in Calls : /\ call[c].op = "appendLog" /\ call[c].pc = "done"
                            /\ call[c].res = "out"
                            /\ call[d].op = "appendLog" /\ call[d].pc = "done"
                            /\ call[d].res = "null"
    /\ Len(logfile.lines) = 1 /\ logfile.lines[1] # OldLine

\* the persistSessions calls between acquiring and releasing the session lock
LockHolders == {i \in PersistIds : persist[i].pc \in {"granted", "writing"}}

\* C29: at most one persistSessions call is between acquiring and releasing
\* the session lock, whoever the concurrent callers are (createSession,
\* revokeSessionsForUser, revokeSession, the sweep, shutdown), so two writes
\* of the session mirror never overlap.
C29_OnePersistAtATime ==
    /\ Cardinality(LockHolders) <= 1
    /\ Cardinality({i \in PersistIds : persist[i].pc = "writing"}) <= 1
    /\ LockHolders # {} => sessionLock.locked

C29_Witness ==
    /\ \E i \in PersistIds : persist[i].pc = "writing" /\ persist[i].by = "shutdown"
    /\ Len(sessionLock.queue) = 2
    /\ \E i \in PersistIds : persist[i].pc = "queued" /\ persist[i].by = "revoke"

\* C30: waiters on the session lock are granted it in the order they asked
\* for it; no waiter is left in the queue while the lock is free; and, as
\* long as the process runs and each mirror write ends, every
\* persistSessions request gets the lock and releases it.
C30_SessionLockFifoAndLive ==
    /\ [][sessionLock'.queue # sessionLock.queue =>
             \/ \E i \in PersistIds : /\ persist[i].pc = "idle"
                                      /\ sessionLock'.queue = Append(sessionLock.queue, i)
             \/ /\ sessionLock.queue # <<>>
                /\ sessionLock'.queue = Tail(sessionLock.queue)
                /\ persist'[Head(sessionLock.queue)].pc = "granted"]_vars
    /\ [][\A i \in PersistIds :
             (persist[i].pc = "queued" /\ persist'[i].pc # "queued")
             => Head(sessionLock.queue) = i /\ persist'[i].pc = "granted"]_vars
    /\ [](sessionLock.queue # <<>> => sessionLock.locked)
    /\ \A i \in PersistIds :
          (persist[i].pc \in {"queued", "granted", "writing"})
              ~> (persist[i].pc = "done" \/ ~Running)

C30_Witness ==
    /\ Running
    /\ persist[1].pc = "done"
    /\ persist[2].pc = "granted"
    /\ persist[3].pc = "queued"
    /\ sessionLock.queue = <<3>>

\* C31: on SIGTERM or SIGINT the process exits only once the handler's
\* persistSessions has finished, and at that moment sessions.json holds
\* exactly the entries the map had when that persist took its snapshot,
\* also when other persists were queued ahead of it.
C31_ExitAfterSnapshotOnDisk ==
    [][\A i \in PersistIds :
          (/\ persist[i].by = "shutdown"
           /\ persist[i].pc # "done"
           /\ persist'[i].pc = "done")
          => /\ persist[i].pc = "writing"
             /\ mirror' = persist[i].snap]_vars

\* C32: a posts route emits data_updated only for a mutation that returned
\* success, and only once that mutation's renames of the data and the digest
\* and its cache update are done; a failed, rejected or not-found mutation
\* is answered without a notification.
C32_NotifyOnlyAfterSuccess ==
    /\ \A c \in Calls :
          call[c].emitted => /\ call[c].res = "ok"
                             /\ call[c].wrote /\ call[c].swapped
                             /\ call[c].status \in {200, 201}
    /\ \A c \in Calls :
          (call[c].status # 0 /\ call[c].res \in {"error", "notfound", "throw"})
              => ~call[c].emitted /\ call[c].status \in {404, 500}

C32_Witness ==
    \E c, d \in Calls :
        /\ call[c].emitted /\ call[c].op = "update" /\ call[c].status = 200
        /\ call[d].status = 404 /\ call[d].res = "notfound" /\ ~call[d].emitted

\* within one date, no timed post stands before an all-day post
AllDayFirst(s) ==
    \A i, j \in 1..Len(s) :
        (i < j /\ s[i].date = s[j].date /\ s[j].isAllDay) => s[i].isAllDay

\* C33: in the collection a sorting write (create, update) produces, within
\* one date every all-day post precedes every timed post, timed posts at
\* 00:00 and all-day posts carrying a time included.
C33_AllDayBeforeTimed ==
    \A c \in Calls :
        (call[c].op \in {"create", "update"} /\ call[c].pc \in {"wtmp", "rename1", "rename2", "swap"})
            => AllDayFirst(call[c].posts)

\* C34: once a writePostsOptimized call has finished (success, write
\* failure or a failing lock release), writeInProgress no longer holds its
\* promise, so a later call starts its own body instead of waiting on, or
\* failing with, the finished one.
C34_WriteQueueFreedOnEveryExit ==
    \A p \in Procs :
        writeInProgress[p] # NoCall => call[writeInProgress[p]].pc # "done"

\* C35: a writePostsOptimized call that waited for the write in flight goes
\* on to start its own body (sort, lock, write) whether the write it waited
\* for succeeded or failed; it never ends without an attempt of its own.
C35_WaiterWritesAnyway ==
    [][\A c \in WriteCalls :
          (call[c].op = "writePosts" /\ call[c].pc = "wait" /\ call'[c].pc # "wait")
              => call'[c].pc = "lock"]_vars

\* C36: whenever the startup load is over, no persistSessions call is
\* pending or running and no write of the mirror has failed, sessions.json
\* holds exactly the entries of the in-memory session map.
C36_MirrorEqualsMapWhenIdle ==
    (/\ load.pc = "done"
     /\ \A i \in PersistIds : persist[i].pc \in {"idle", "done"}
     /\ sfaults = 0)
    => mirror = sessions

\* no list route is between taking the lock and answering
ListsAtRest == \A c \in Calls : call[c].pc \in {"idle", "done"}

\* C37: after every completed list operation (add, remove, colour update),
\* in any order, the digest file of lists.json, if present, matches the
\* bytes of lists.json.
C37_ListsDigestMatches ==
    (ListsAtRest /\ sha # NoFile) => ~ChecksumMismatch(sha, file)

\* C38: writeJSON takes its direct, unlocked write only when another writer
\* holds the lock on the path; called by a route that itself holds the lock
\* on that path (the colour update) it is not on the direct path.
C38_HolderGetsLockedWrite ==
    \A c \in Calls :
        (call[c].op = "listColor" /\ call[c].pc \in {"direct1", "direct2"})
            => lock # NoCall /\ lock # c

\* C39: the updatedPost of a successful atomicUpdatePost(id, fn) is the post
\* with the requested id, as changed by fn, also when the new date or time
\* moves it to another position of the sorted collection.
C39_UpdatedPostIsTheTarget ==
    \A c \in Calls :
        (call[c].op = "update" /\ call[c].pc = "done" /\ call[c].res = "ok")
            => /\ call[c].updatedPost.id = call[c].id
               /\ call[c].updatedPost.date \in UpdateDates

\* C40: once the bootstrap admin exists, users.json always holds at least
\* one user whose role is 'admin', whatever user create, role update and
\* user delete requests authenticated administrators make, in any
\* interleaving.
C40_AlwaysAnAdmin ==
    ParseJSON(file).r = "value" /\ AdminCount(ParseJSON(file).v) >= 1

====
